---- MODULE Spec2Model ----
(***************************************************************************)
(* State-machine model of the iot-mesurable telemetry agent:               *)
(*   SensorRegistry  (hardware -> sensors -> value/status, status JSON)    *)
(*   MqttClient      (connection state, reconnect throttle)                *)
(*   IotMesurable    (facade: loop() scheduler, inbound message handling)  *)
(* C strings are modelled as sequences of one-character strings; a char[N] *)
(* field holds at most N-1 characters.  The device build (NATIVE_BUILD not *)
(* defined) is the one modelled.                                           *)
(***************************************************************************)
EXTENDS Integers, Sequences, FiniteSets, TLC

VARIABLES
    hardware,   \* SensorRegistry::_hardware : sequence of HardwareDef
    now,        \* millis()
    lastOp,     \* the last call made by the host: its name, its key argument, its result
    statusOut,  \* what the last buildStatusJson call left in the caller's buffer
    mqtt,       \* MqttClient: broker set, transport link, _lastReconnectAttempt
    sched,      \* IotMesurable: _lastStatusPublish, _lastSystemPublish, _lastConfigPublish
    sent,       \* the topics handed to the transport by the last call
    attempts,   \* history: the last connection attempt and the one before it
    notified,   \* the _onConnect invocations made by the last transport event
    emitted,    \* history: when each scheduled publication last left, and the time before
    prefs,      \* ConfigManager: the persisted preferences, a set of <<key, value>>
    callbacks,  \* IotMesurable: whether _onConfigChange / _onEnableChange are set
    facade,     \* IotMesurable: _onConnect, and what the connection lambda of begin()
                \* did on the last transport event
    inbound,    \* the last message the transport delivered
    fired,      \* the user callbacks invoked while handling that message
    pc,         \* where IotMesurable::loop stands, and its locals
    keyOut,     \* the last composite-key call: its arguments and what it returned
    applied     \* history: the settings the messages have carried for the hardware
                \* registered when they came, and whether the device restarted since

regVars  == <<hardware, lastOp, statusOut>>
connVars == <<mqtt, sched, sent, attempts, notified, emitted>>
facVars  == <<prefs, callbacks, facade, inbound, fired, pc, keyOut, applied>>
vars == <<hardware, now, lastOp, statusOut, mqtt, sched, sent, attempts, notified, emitted,
          prefs, callbacks, facade, inbound, fired, pc, keyOut, applied>>

-----------------------------------------------------------------------------
(* Program constants *)

KeySize  == 32      \* sizeof(HardwareDef::key)
TypeSize == 32      \* sizeof(SensorDef::type)
NameSize == 64      \* sizeof(HardwareDef::name)
DefaultIntervalMs == 60000

(* Bounds of the model *)

MaxUptime  == 17500 \* the clock stops here
MaxHw      == 2     \* hardware entries the registry may hold
MaxSensors == 2     \* sensors the registry may hold, all hardware together

-----------------------------------------------------------------------------
(* C strings *)

Rep(c, n) == [i \in 1..n |-> c]

\* a null char* argument
Null == <<"(null)">>

\* strncpy(dst, src, n); dst[n] = '\0'
Truncate(s, n) == IF Len(s) <= n THEN s ELSE SubSeq(s, 1, n)

(* float: NaN or a finite value counted in hundredths *)
NaN       == [nan |-> TRUE, c |-> 0]
Finite(c) == [nan |-> FALSE, c |-> c]
isnan(v)  == v.nan

-----------------------------------------------------------------------------
(* SensorRegistry: lookups.  Indices are 1-based, 0 stands for the code's -1 *)

findHardwareIndex(hw, key) ==
    IF \E i \in 1..Len(hw) : hw[i].key = key
    THEN CHOOSE i \in 1..Len(hw) :
            hw[i].key = key /\ \A j \in 1..(i - 1) : hw[j].key # key
    ELSE 0

findSensorIndex(h, sensorType) ==
    IF \E i \in 1..Len(h.sensors) : h.sensors[i].type = sensorType
    THEN CHOOSE i \in 1..Len(h.sensors) :
            h.sensors[i].type = sensorType
            /\ \A j \in 1..(i - 1) : h.sensors[j].type # sensorType
    ELSE 0

hasHardware(hw, key) == findHardwareIndex(hw, key) > 0

hasSensor(hw, hardwareKey, sensorType) ==
    LET idx == findHardwareIndex(hw, hardwareKey)
    IN  IF idx = 0 THEN FALSE ELSE findSensorIndex(hw[idx], sensorType) > 0

isHardwareEnabled(hw, hardwareKey) ==
    LET idx == findHardwareIndex(hw, hardwareKey)
    IN  IF idx = 0 THEN FALSE ELSE hw[idx].enabled

-----------------------------------------------------------------------------
(* SensorRegistry: operations, as functions of the registry content *)

NewHardware(key, name) ==
    [key        |-> Truncate(key, KeySize - 1),
     name       |-> Truncate(IF name # Null THEN name ELSE key, NameSize - 1),
     enabled    |-> TRUE,
     intervalMs |-> DefaultIntervalMs,
     sensors    |-> <<>>]

NewSensor(sensorType) ==
    [type       |-> Truncate(sensorType, TypeSize - 1),
     status     |-> "missing",
     lastValue  |-> Finite(0),
     hasValue   |-> FALSE,
     lastUpdate |-> 0]

\* registerHardware that replaces the entry of a key that is already present
registerHardware_overwrite(hw, key, name) ==
    IF key = Null \/ Len(key) = 0 THEN [ret |-> FALSE, hardware |-> hw]
    ELSE IF hasHardware(hw, key)
         THEN [ret |-> FALSE,
               hardware |-> [hw EXCEPT ![findHardwareIndex(hw, key)] = NewHardware(key, name)]]
    ELSE [ret |-> TRUE, hardware |-> Append(hw, NewHardware(key, name))]

registerHardware(hw, key, name) ==
    IF key = Null \/ Len(key) = 0 THEN [ret |-> FALSE, hardware |-> hw]
    ELSE IF hasHardware(hw, key) THEN [ret |-> FALSE, hardware |-> hw]
    ELSE [ret |-> TRUE, hardware |-> Append(hw, NewHardware(key, name))]

\* addSensor that registers the hardware when it is missing
addSensor_autoRegister(hw, hardwareKey, sensorType) ==
    IF hardwareKey = Null \/ sensorType = Null THEN [ret |-> FALSE, hardware |-> hw]
    ELSE LET idx == findHardwareIndex(hw, hardwareKey)
         IN  IF idx = 0
             THEN [ret |-> FALSE, hardware |-> Append(hw, NewHardware(hardwareKey, Null))]
             ELSE IF hasSensor(hw, hardwareKey, sensorType)
                  THEN [ret |-> FALSE, hardware |-> hw]
             ELSE [ret |-> TRUE,
                   hardware |-> [hw EXCEPT ![idx].sensors = Append(@, NewSensor(sensorType))]]

\* addSensor that gives the new sensor of a disabled hardware the status "disabled"
addSensor_statusFromHardware(hw, hardwareKey, sensorType) ==
    IF hardwareKey = Null \/ sensorType = Null THEN [ret |-> FALSE, hardware |-> hw]
    ELSE LET idx == findHardwareIndex(hw, hardwareKey)
         IN  IF idx = 0 THEN [ret |-> FALSE, hardware |-> hw]
             ELSE IF hasSensor(hw, hardwareKey, sensorType)
                  THEN [ret |-> FALSE, hardware |-> hw]
             ELSE [ret |-> TRUE,
                   hardware |-> [hw EXCEPT ![idx].sensors =
                        Append(@, [NewSensor(sensorType) EXCEPT !.status =
                                        IF hw[idx].enabled THEN "missing" ELSE "disabled"])]]

addSensor(hw, hardwareKey, sensorType) ==
    IF hardwareKey = Null \/ sensorType = Null THEN [ret |-> FALSE, hardware |-> hw]
    ELSE LET idx == findHardwareIndex(hw, hardwareKey)
         IN  IF idx = 0 THEN [ret |-> FALSE, hardware |-> hw]
             ELSE IF hasSensor(hw, hardwareKey, sensorType)
                  THEN [ret |-> FALSE, hardware |-> hw]
             ELSE [ret |-> TRUE,
                   hardware |-> [hw EXCEPT ![idx].sensors = Append(@, NewSensor(sensorType))]]

\* updateSensorValue that stores the value and leaves the status as it was
updateSensorValue_keepStatus(hw, hardwareKey, sensorType, value, millis) ==
    LET idx == findHardwareIndex(hw, hardwareKey)
        sx  == IF idx = 0 THEN 0 ELSE findSensorIndex(hw[idx], sensorType)
    IN  IF sx = 0 THEN hw
        ELSE [hw EXCEPT ![idx].sensors[sx] =
                [@ EXCEPT !.lastValue  = value,
                          !.hasValue   = TRUE,
                          !.lastUpdate = millis]]

updateSensorValue(hw, hardwareKey, sensorType, value, millis) ==
    LET idx == findHardwareIndex(hw, hardwareKey)
        sx  == IF idx = 0 THEN 0 ELSE findSensorIndex(hw[idx], sensorType)
    IN  IF sx = 0 THEN hw
        ELSE [hw EXCEPT ![idx].sensors[sx] =
                [@ EXCEPT !.lastValue  = value,
                          !.hasValue   = TRUE,
                          !.lastUpdate = millis,
                          !.status     = IF ~hw[idx].enabled THEN "disabled"
                                         ELSE IF ~isnan(value) THEN "ok"
                                         ELSE "missing"]]

\* setHardwareEnabled that creates the hardware it does not find
setHardwareEnabled_createsUnknown(hw, hardwareKey, enabled) ==
    LET idx == findHardwareIndex(hw, hardwareKey)
    IN  IF idx = 0
        THEN Append(hw, [NewHardware(hardwareKey, hardwareKey) EXCEPT !.enabled = enabled])
        ELSE LET old == hw[idx].sensors
             IN  [hw EXCEPT ![idx].enabled = enabled,
                            ![idx].sensors =
                                [i \in 1..Len(old) |->
                                    [old[i] EXCEPT !.status =
                                        IF ~enabled THEN "disabled"
                                        ELSE IF old[i].hasValue THEN "ok"
                                        ELSE "missing"]]]

setHardwareEnabled(hw, hardwareKey, enabled) ==
    LET idx == findHardwareIndex(hw, hardwareKey)
    IN  IF idx = 0 THEN hw
        ELSE LET old == hw[idx].sensors
             IN  [hw EXCEPT ![idx].enabled = enabled,
                            ![idx].sensors =
                                [i \in 1..Len(old) |->
                                    [old[i] EXCEPT !.status =
                                        IF ~enabled THEN "disabled"
                                        ELSE IF old[i].hasValue THEN "ok"
                                        ELSE "missing"]]]

setHardwareInterval(hw, hardwareKey, intervalMs) ==
    LET idx == findHardwareIndex(hw, hardwareKey)
    IN  IF idx = 0 THEN hw ELSE [hw EXCEPT ![idx].intervalMs = intervalMs]

-----------------------------------------------------------------------------
(* SensorRegistry::buildStatusJson *)

Q   == "\""          \* the double quote character
NUL == "NUL"         \* the terminating zero byte
Indeterminate == "indeterminate"    \* a byte of the buffer nobody wrote

CompositeKeySize == 64      \* char compositeKey[64]

Min(a, b) == IF a < b THEN a ELSE b

DigitChars == <<"0", "1", "2", "3", "4", "5", "6", "7", "8", "9">>

RECURSIVE Decimal(_)
\* printf("%d") of a natural number
Decimal(n) == IF n < 10 THEN <<DigitChars[n + 1]>>
              ELSE Decimal(n \div 10) \o <<DigitChars[(n % 10) + 1]>>

\* printf("%.2f") of a finite value held in hundredths
FormatFixed2(c) ==
    LET a == IF c < 0 THEN -c ELSE c
    IN  (IF c < 0 THEN <<"-">> ELSE <<>>)
        \o Decimal(a \div 100)
        \o <<".", DigitChars[((a \div 10) % 10) + 1], DigitChars[(a % 10) + 1]>>

\* the characters of a status string
StatusChars(st) ==
    CASE st = "ok"       -> <<"o", "k">>
      [] st = "missing"  -> <<"m", "i", "s", "s", "i", "n", "g">>
      [] st = "disabled" -> <<"d", "i", "s", "a", "b", "l", "e", "d">>

\* buildCompositeKey that keeps one character less than the buffer holds
buildCompositeKey_shortByOne(hardwareKey, sensorType, bufferSize) ==
    Truncate(hardwareKey \o <<":">> \o sensorType, bufferSize - 2)

\* snprintf(buffer, bufferSize, "%s:%s", hardwareKey, sensorType)
buildCompositeKey(hardwareKey, sensorType, bufferSize) ==
    Truncate(hardwareKey \o <<":">> \o sensorType, bufferSize - 1)

\* strchr(s, c): the position of the first c in s, 0 for a null result
strchr(s, c) ==
    IF \E i \in 1..Len(s) : s[i] = c
    THEN CHOOSE i \in 1..Len(s) : s[i] = c /\ \A j \in 1..(i - 1) : s[j] # c
    ELSE 0

\* what is in an output buffer the call did not write
Unwritten == <<Indeterminate>>

\* parseCompositeKey that accepts an empty sensor part
parseCompositeKey_hardwareOnly(compositeKey, bufferSize) ==
    IF compositeKey = Null
    THEN [ret |-> FALSE, hardwareKey |-> Unwritten, sensorType |-> Unwritten]
    ELSE LET colon == strchr(compositeKey, ":")
         IN  IF colon = 0
             THEN [ret |-> FALSE, hardwareKey |-> Unwritten, sensorType |-> Unwritten]
             ELSE LET hardwareKey == Truncate(SubSeq(compositeKey, 1, colon - 1),
                                              bufferSize - 1)
                      sensorType  == Truncate(SubSeq(compositeKey, colon + 1,
                                                     Len(compositeKey)), bufferSize - 1)
                  IN  [ret |-> Len(hardwareKey) > 0,
                       hardwareKey |-> hardwareKey, sensorType |-> sensorType]

\* SensorRegistry::parseCompositeKey, bufferSize >= 1
parseCompositeKey(compositeKey, bufferSize) ==
    IF compositeKey = Null
    THEN [ret |-> FALSE, hardwareKey |-> Unwritten, sensorType |-> Unwritten]
    ELSE LET colon == strchr(compositeKey, ":")
         IN  IF colon = 0
             THEN [ret |-> FALSE, hardwareKey |-> Unwritten, sensorType |-> Unwritten]
             ELSE LET hwLen == IF colon - 1 >= bufferSize THEN bufferSize - 1 ELSE colon - 1
                      hardwareKey == SubSeq(compositeKey, 1, hwLen)
                      sensorType  == Truncate(SubSeq(compositeKey, colon + 1,
                                                     Len(compositeKey)), bufferSize - 1)
                  IN  [ret |-> Len(hardwareKey) > 0 /\ Len(sensorType) > 0,
                       hardwareKey |-> hardwareKey, sensorType |-> sensorType]

\* EntryText that prints lastValue without asking whether a value was recorded
EntryText_noHasValueCheck(h, sensor) ==
    LET compositeKey    == buildCompositeKey(h.key, sensor.type, CompositeKeySize)
        effectiveStatus == IF h.enabled THEN sensor.status ELSE "disabled"
        value == IF ~isnan(sensor.lastValue)
                 THEN FormatFixed2(sensor.lastValue.c)
                 ELSE <<"n", "u", "l", "l">>
    IN  <<Q>> \o compositeKey
        \o <<Q, ":", "{", Q, "s", "t", "a", "t", "u", "s", Q, ":", Q>>
        \o StatusChars(effectiveStatus)
        \o <<Q, ",", Q, "v", "a", "l", "u", "e", Q, ":">>
        \o value \o <<"}">>

\* the text of one entry: "key":{"status":"...","value":...}
EntryText(h, sensor) ==
    LET compositeKey    == buildCompositeKey(h.key, sensor.type, CompositeKeySize)
        effectiveStatus == IF h.enabled THEN sensor.status ELSE "disabled"
        value == IF sensor.hasValue /\ ~isnan(sensor.lastValue)
                 THEN FormatFixed2(sensor.lastValue.c)
                 ELSE <<"n", "u", "l", "l">>
    IN  <<Q>> \o compositeKey
        \o <<Q, ":", "{", Q, "s", "t", "a", "t", "u", "s", Q, ":", Q>>
        \o StatusChars(effectiveStatus)
        \o <<Q, ",", Q, "v", "a", "l", "u", "e", Q, ":">>
        \o value \o <<"}">>

\* the texts buildStatusJson hands to snprintf, in call order
RECURSIVE SensorPieces(_, _, _)
SensorPieces(h, j, first) ==
    IF j > Len(h.sensors) THEN <<>>
    ELSE (IF first THEN <<>> ELSE << <<",">> >>)
         \o << EntryText(h, h.sensors[j]) >>
         \o SensorPieces(h, j + 1, FALSE)

RECURSIVE HardwarePieces_firstPerHardware(_, _, _)
\* HardwarePieces with firstSensor set anew for every hardware
HardwarePieces_firstPerHardware(hw, i, first) ==
    IF i > Len(hw) THEN <<>>
    ELSE SensorPieces(hw[i], 1, TRUE)
         \o HardwarePieces_firstPerHardware(hw, i + 1, first)

RECURSIVE HardwarePieces(_, _, _)
HardwarePieces(hw, i, first) ==
    IF i > Len(hw) THEN <<>>
    ELSE SensorPieces(hw[i], 1, first)
         \o HardwarePieces(hw, i + 1, first /\ Len(hw[i].sensors) = 0)

StatusPieces(hw) == << <<"{">> >> \o HardwarePieces(hw, 1, TRUE) \o << <<"}">> >>

(* written += snprintf(buffer + written, bufferSize - written, text).        *)
(* st = [buf, written, oob]: the bufferSize bytes of the caller's buffer,    *)
(* the running offset, and whether a byte was stored at or past bufferSize.  *)
(* bufferSize - written is a size_t: once written > bufferSize it wraps to a *)
(* huge size, and the call either stores the whole text past the buffer or   *)
(* (a libc that rejects sizes above INT_MAX) stores nothing and returns -1.  *)
snprintfAt(st, bufferSize, text, libc) ==
    IF st.written < bufferSize
    THEN LET n == Min(Len(text), bufferSize - st.written - 1)
         IN  [buf |-> [i \in 1..bufferSize |->
                        IF i > st.written /\ i <= st.written + n THEN text[i - st.written]
                        ELSE IF i = st.written + n + 1 THEN NUL
                        ELSE st.buf[i]],
              written |-> st.written + Len(text),
              oob     |-> st.oob]
    ELSE IF st.written = bufferSize
    THEN [st EXCEPT !.written = @ + Len(text)]
    ELSE IF libc = "unchecked"
    THEN [st EXCEPT !.written = @ + Len(text), !.oob = TRUE]
    ELSE [st EXCEPT !.written = @ - 1]

RECURSIVE PrintAll(_, _, _, _)
PrintAll(st, bufferSize, pieces, libc) ==
    IF pieces = <<>> THEN st
    ELSE PrintAll(snprintfAt(st, bufferSize, Head(pieces), libc),
                  bufferSize, Tail(pieces), libc)

RECURSIVE CString(_, _)
\* the characters of buf from position i up to the first NUL
CString(buf, i) ==
    IF i > Len(buf) \/ buf[i] = NUL THEN <<>> ELSE <<buf[i]>> \o CString(buf, i + 1)

\* the call: what is left in the buffer, the value returned, the bytes stored outside
buildStatusJson(hw, bufferSize, libc) ==
    LET st == PrintAll([buf |-> [i \in 1..bufferSize |-> Indeterminate],
                        written |-> 0, oob |-> FALSE],
                       bufferSize, StatusPieces(hw), libc)
    IN  [called     |-> TRUE,
         bufferSize |-> bufferSize,
         text       |-> CString(st.buf, 1),
         written    |-> st.written,
         oob        |-> st.oob]

\* buildStatusJson that stores the effective status into the sensors it visits
registryAfterStatus_writeBack(hw) ==
    [i \in 1..Len(hw) |->
        [hw[i] EXCEPT !.sensors =
            [j \in 1..Len(hw[i].sensors) |->
                [hw[i].sensors[j] EXCEPT !.status =
                    IF hw[i].enabled THEN @ ELSE "disabled"]]]]

\* the registry after a buildStatusJson call: the method is const and visits
\* the hardware and the sensors through const references
registryAfterStatus(hw) == hw

NoStatus == [called |-> FALSE, bufferSize |-> 0, text |-> <<>>, written |-> 0, oob |-> FALSE]

-----------------------------------------------------------------------------
(* Time *)

(* millis() is an unsigned long of 32 bits.  A value of 2^31 or more is held *)
(* as the signed number with the same 32 bits (2^32 - 1 is -1), so that all  *)
(* values fit a signed 32-bit integer; the values the model reaches lie      *)
(* within 2^30 of zero on either side.                                       *)

MaxInt32 == 2147483647

millis == now

Half == 65536

\* unsigned a >= b on the 32 bits of a and b
UGeq(a, b) == IF (a < 0) = (b < 0) THEN a >= b ELSE a < 0

\* now - last on unsigned long: the difference modulo 2^32, formed on 16-bit
\* halves with the borrow carried over.  A difference of 2^31 or more, larger
\* than any interval, is given as MaxInt32.
Elapsed(nowMs, last) ==
    LET lo     == (nowMs % Half) - (last % Half)
        borrow == IF lo < 0 THEN 1 ELSE 0
        hi     == (((nowMs \div Half) % Half) - ((last \div Half) % Half) - borrow) % Half
    IN  IF hi >= Half \div 2 THEN MaxInt32 ELSE hi * Half + (lo % Half)

-----------------------------------------------------------------------------
(* MqttClient (device build).  link is the state of the AsyncMqttClient:     *)
(* _client.connected() is link = "connected".                                *)

RECONNECT_INTERVAL == 5000

NoListener == "none"

MqttInit == [host |-> FALSE, link |-> "disconnected", lastReconnectAttempt |-> 0,
             onConnect |-> NoListener]

\* _client.connect(): an attempt is started unless one is running
clientConnect(link) == IF link = "disconnected" THEN "connecting" ELSE link

\* MqttClient::connect of the first revision: the attempt timer is left alone
mqttConnect_noTimerReset(m, nowMs) ==
    IF ~m.host THEN [ret |-> FALSE, mqtt |-> m, requested |-> FALSE]
    ELSE [ret |-> TRUE,
          mqtt |-> [m EXCEPT !.link = IF m.link # "connected" THEN clientConnect(m.link) ELSE @],
          requested |-> m.link # "connected"]

\* MqttClient::connect
mqttConnect(m, nowMs) ==
    IF ~m.host THEN [ret |-> FALSE, mqtt |-> m, requested |-> FALSE]
    ELSE [ret |-> TRUE,
          mqtt |-> [m EXCEPT !.lastReconnectAttempt = nowMs,
                             !.link = IF m.link # "connected" THEN clientConnect(m.link) ELSE @],
          requested |-> m.link # "connected"]

\* MqttClient::loop
mqttLoop(m, nowMs) ==
    IF m.link # "connected" /\ Elapsed(nowMs, m.lastReconnectAttempt) > RECONNECT_INTERVAL
    THEN LET c == mqttConnect([m EXCEPT !.lastReconnectAttempt = nowMs], nowMs)
         IN  [mqtt |-> c.mqtt, requested |-> c.requested]
    ELSE [mqtt |-> m, requested |-> FALSE]

isConnected(m) == m.link = "connected"

\* MqttClient::onConnect
mqttOnConnect(m, callback) == [m EXCEPT !.onConnect = callback]

\* the calls of _onConnect made with the argument connected:
\* if (_onConnect) { _onConnect(connected); }
Notify(m, connected) ==
    IF m.onConnect # NoListener
    THEN <<[listener |-> m.onConnect, connected |-> connected]>>
    ELSE <<>>

\* a transport event that calls the listener once more than setupCallbacks does
onTransportEvent_notifyTwice(m, connected) ==
    [mqtt |-> [m EXCEPT !.link = IF connected THEN "connected" ELSE "disconnected"],
     notified |-> Notify(m, connected) \o Notify(m, connected)]

\* the _client.onConnect / _client.onDisconnect lambdas of setupCallbacks
onTransportEvent(m, connected) ==
    [mqtt |-> [m EXCEPT !.link = IF connected THEN "connected" ELSE "disconnected"],
     notified |-> Notify(m, connected)]

-----------------------------------------------------------------------------
(* IotMesurable::loop: the three scheduled publications *)

STATUS_INTERVAL == 5000
SYSTEM_INTERVAL == 10000
CONFIG_INTERVAL == 7500

SchedInit == [lastStatusPublish |-> 0, lastSystemPublish |-> 0, lastConfigPublish |-> 0]

\* publishStatus / publishSystemInfo + publishHardwareInfo / publishConfig:
\* the topics handed to the transport
publishStatus(m)  == IF isConnected(m) THEN <<"sensors/status">> ELSE <<>>
publishSystemInfo(m)   == IF isConnected(m) THEN <<"system/config">> ELSE <<>>
publishHardwareInfo(m) == IF isConnected(m) THEN <<"hardware/config">> ELSE <<>>
publishConfig(m)  == IF isConnected(m) THEN <<"sensors/config">> ELSE <<>>

\* a scheduler that compares the clock with a deadline, last + interval, in
\* place of the time elapsed with the interval
schedulerTick_deadline(sc, m, nowMs) ==
    LET dueStatus == UGeq(nowMs, sc.lastStatusPublish + STATUS_INTERVAL)
        dueSystem == UGeq(nowMs, sc.lastSystemPublish + SYSTEM_INTERVAL)
        dueConfig == UGeq(nowMs, sc.lastConfigPublish + CONFIG_INTERVAL)
    IN  [sched |-> [lastStatusPublish |-> IF dueStatus THEN nowMs ELSE sc.lastStatusPublish,
                    lastSystemPublish |-> IF dueSystem THEN nowMs ELSE sc.lastSystemPublish,
                    lastConfigPublish |-> IF dueConfig THEN nowMs ELSE sc.lastConfigPublish],
         sent  |-> (IF dueStatus THEN publishStatus(m) ELSE <<>>)
                   \o (IF dueSystem THEN publishSystemInfo(m) \o publishHardwareInfo(m) ELSE <<>>)
                   \o (IF dueConfig THEN publishConfig(m) ELSE <<>>)]

\* a scheduler whose configuration publication runs on the status period
schedulerTick_configOnStatusPeriod(sc, m, nowMs) ==
    LET dueStatus == Elapsed(nowMs, sc.lastStatusPublish) >= STATUS_INTERVAL
        dueSystem == Elapsed(nowMs, sc.lastSystemPublish) >= SYSTEM_INTERVAL
        dueConfig == Elapsed(nowMs, sc.lastConfigPublish) >= STATUS_INTERVAL
    IN  [sched |-> [lastStatusPublish |-> IF dueStatus THEN nowMs ELSE sc.lastStatusPublish,
                    lastSystemPublish |-> IF dueSystem THEN nowMs ELSE sc.lastSystemPublish,
                    lastConfigPublish |-> IF dueConfig THEN nowMs ELSE sc.lastConfigPublish],
         sent  |-> (IF dueStatus THEN publishStatus(m) ELSE <<>>)
                   \o (IF dueSystem THEN publishSystemInfo(m) \o publishHardwareInfo(m) ELSE <<>>)
                   \o (IF dueConfig THEN publishConfig(m) ELSE <<>>)]

\* the scheduler part of IotMesurable::loop, after _mqtt->loop()
schedulerTick(sc, m, nowMs) ==
    LET dueStatus == Elapsed(nowMs, sc.lastStatusPublish) >= STATUS_INTERVAL
        dueSystem == Elapsed(nowMs, sc.lastSystemPublish) >= SYSTEM_INTERVAL
        dueConfig == Elapsed(nowMs, sc.lastConfigPublish) >= CONFIG_INTERVAL
    IN  [sched |-> [lastStatusPublish |-> IF dueStatus THEN nowMs ELSE sc.lastStatusPublish,
                    lastSystemPublish |-> IF dueSystem THEN nowMs ELSE sc.lastSystemPublish,
                    lastConfigPublish |-> IF dueConfig THEN nowMs ELSE sc.lastConfigPublish],
         sent  |-> (IF dueStatus THEN publishStatus(m) ELSE <<>>)
                   \o (IF dueSystem THEN publishSystemInfo(m) \o publishHardwareInfo(m) ELSE <<>>)
                   \o (IF dueConfig THEN publishConfig(m) ELSE <<>>)]

-----------------------------------------------------------------------------
(* ConfigManager: the per-hardware settings kept in Preferences *)

PrefKeySize == 48       \* char key[48]

EnPrefix == <<"e", "n", "_">>
IvPrefix == <<"i", "v", "_">>

\* snprintf(key, sizeof(key), "en_%s", hardwareKey)
prefKey(prefix, hardwareKey) == Truncate(prefix \o hardwareKey, PrefKeySize - 1)

\* Preferences::putBool / putInt
put(p, key, value) == {e \in p : e[1] # key} \cup {<<key, value>>}

\* Preferences::getBool / getInt
get(p, key, defaultValue) ==
    IF \E e \in p : e[1] = key THEN (CHOOSE e \in p : e[1] = key)[2] ELSE defaultValue

saveHardwareEnabled(p, hardwareKey, enabled) == put(p, prefKey(EnPrefix, hardwareKey), enabled)
loadHardwareEnabled(p, hardwareKey, defaultValue) == get(p, prefKey(EnPrefix, hardwareKey), defaultValue)
saveInterval(p, hardwareKey, intervalMs) == put(p, prefKey(IvPrefix, hardwareKey), intervalMs)
loadInterval(p, hardwareKey, defaultValue) == get(p, prefKey(IvPrefix, hardwareKey), defaultValue)

-----------------------------------------------------------------------------
(* IotMesurable: registration and inbound messages *)

ModuleId == <<"m">>      \* _moduleId
TopicSize == 128         \* char topic[128]

RECURSIVE Str(_)
\* the characters of s as one string
Str(s) == IF s = <<>> THEN "" ELSE s[1] \o Str(Tail(s))

\* snprintf(topic, sizeof(topic), "%s/%s/%s", _moduleId, hardwareKey, sensorType)
ValueTopic(hardwareKey, sensorType) ==
    Str(Truncate(ModuleId \o <<"/">> \o hardwareKey \o <<"/">> \o sensorType,
                 TopicSize - 1))

\* a publish that hands the message over whatever the link is
mqttPublish_unchecked(m, topic) == <<topic>>

\* MqttClient::publish: if (_client.connected()) _client.publish(...)
mqttPublish(m, topic) == IF isConnected(m) THEN <<topic>> ELSE <<>>

\* IotMesurable::publish without the test of isHardwareEnabled
IotMesurable_publish_noGate(hw, m, hardwareKey, sensorType, value, nowMs) ==
    [hardware |-> updateSensorValue(hw, hardwareKey, sensorType, value, nowMs),
     sent     |-> mqttPublish(m, ValueTopic(hardwareKey, sensorType))]

\* IotMesurable::publish
IotMesurable_publish(hw, m, hardwareKey, sensorType, value, nowMs) ==
    IF ~isHardwareEnabled(hw, hardwareKey) THEN [hardware |-> hw, sent |-> <<>>]
    ELSE [hardware |-> updateSensorValue(hw, hardwareKey, sensorType, value, nowMs),
          sent     |-> mqttPublish(m, ValueTopic(hardwareKey, sensorType))]

\* the listener that IotMesurable::begin registers with the client
FacadeListener == "facade"

\* IotMesurable after construction: no _onConnect, nothing done on an event
FacadeInit == [onConnect |-> NoListener, trace |-> <<>>]

\* MqttClient::subscribe: the _client.subscribe calls it makes
mqttSubscribe(m, topic) ==
    IF isConnected(m)
    THEN <<[call |-> "subscribe", arg |-> topic, connected |-> TRUE]>>
    ELSE <<>>

\* IotMesurable::setupSubscriptions
setupSubscriptions(m) ==
    mqttSubscribe(m, Str(ModuleId) \o "/sensors/config")
        \o mqttSubscribe(m, Str(ModuleId) \o "/sensors/enable")

\* the lambda begin() hands to MqttClient::onConnect:
\* if (connected) setupSubscriptions(); if (_onConnect) _onConnect(connected);
connectLambda(f, m, connected) ==
    (IF connected THEN setupSubscriptions(m) ELSE <<>>)
    \o (IF f.onConnect # NoListener
        THEN <<[call |-> "onConnect", arg |-> f.onConnect, connected |-> connected]>>
        ELSE <<>>)

\* what the client's _onConnect invocations of one transport event do in the
\* facade: the lambda runs when it is the registered listener
RECURSIVE connectLambdas(_, _, _)
connectLambdas(f, m, calls) ==
    IF calls = <<>> THEN <<>>
    ELSE (IF Head(calls).listener = FacadeListener
          THEN connectLambda(f, m, Head(calls).connected)
          ELSE <<>>)
         \o connectLambdas(f, m, Tail(calls))

\* IotMesurable::begin up to its return value: the WiFi comes up or not; the
\* broker kept in the configuration is taken over; the lambda is registered;
\* the client connects
begin(m, wifi, storedBroker, nowMs) ==
    IF ~wifi THEN [mqtt |-> m, ret |-> FALSE, requested |-> FALSE]
    ELSE LET c == mqttConnect(mqttOnConnect([m EXCEPT !.host = @ \/ storedBroker],
                                            FacadeListener), nowMs)
         IN  [mqtt |-> c.mqtt, ret |-> c.ret, requested |-> c.requested]

\* IotMesurable::registerHardware: register, then apply the persisted settings
IotMesurable_registerHardware(hw, p, key, name) ==
    LET r        == registerHardware(hw, key, name).hardware
        enabled  == loadHardwareEnabled(p, key, TRUE)
        e        == setHardwareEnabled(r, key, enabled)
        interval == loadInterval(p, key, 60000)
    IN  setHardwareInterval(e, key, interval)

ConfigTopic == "m/sensors/config"       \* "%s/sensors/config" of the module id
EnableTopic == "m/sensors/enable"       \* "%s/sensors/enable" of the module id

(* A payload is what deserializeJson makes of it: error, or a document with  *)
(* the members that matter here.  hardware is Null when the member is absent *)
(* (doc["hardware"] is then a null pointer); enabled is "absent", "true" or  *)
(* "false"; sensors is a set of [key, hasInterval, interval], one per member *)
(* of the "sensors" object.                                                  *)
Payload(error, hardwareKey, enabled, hasSensors, sensors) ==
    [error |-> error, hardware |-> hardwareKey, enabled |-> enabled,
     hasSensors |-> hasSensors, sensors |-> sensors]

NoMessage == [topic |-> "none", payload |-> Payload(TRUE, Null, "absent", FALSE, {})]

\* what a build makes of a signed overflow: the product wraps around 2^32,
\* or the multiplication traps and the program stops
IntOverflows == {"wraps", "traps"}

\* the low 32 bits of a * b, read as an int; b is below 2^15.  The product is
\* formed on 16-bit halves so that no step leaves the 32-bit range.
WrapMul(a, b) ==
    LET lo == a % Half
        hi == (a \div Half) % Half
        p  == lo * b
        l2 == p % Half
        h2 == (hi * b + p \div Half) % Half
    IN  IF h2 >= Half \div 2 THEN (h2 - Half) * Half + l2 ELSE h2 * Half + l2

\* interval * 1000 on int
mulSeconds(interval, ub) ==
    IF interval <= MaxInt32 \div 1000 /\ interval >= -(MaxInt32 \div 1000)
    THEN [trapped |-> FALSE, value |-> interval * 1000]
    ELSE IF ub = "wraps" THEN [trapped |-> FALSE, value |-> WrapMul(interval, 1000)]
    ELSE [trapped |-> TRUE, value |-> 0]

\* the loop over getAllHardware() in the config branch, from entry i on
RECURSIVE applyConfig(_, _, _, _, _)
applyConfig(acc, i, cb, sensors, ub) ==
    IF i > Len(acc.hardware) THEN acc
    ELSE LET key == acc.hardware[i].key
         IN  IF \E e \in sensors : e.key = key /\ e.hasInterval
             THEN LET e  == CHOOSE e \in sensors : e.key = key /\ e.hasInterval
                      m  == mulSeconds(e.interval, ub)
                      ms == m.value
                  IN  IF m.trapped THEN acc
                      ELSE applyConfig(
                        [hardware |-> setHardwareInterval(acc.hardware, key, ms),
                         prefs    |-> saveInterval(acc.prefs, key, ms),
                         fired    |-> IF cb.config
                                      THEN Append(acc.fired, [cb |-> "onConfigChange",
                                                              key |-> key, value |-> ms])
                                      ELSE acc.fired],
                        i + 1, cb, sensors, ub)
             ELSE applyConfig(acc, i + 1, cb, sensors, ub)

\* IotMesurable::handleMqttMessage
handleMqttMessage(hw, p, cb, topic, payload, ub) ==
    LET unchanged == [hardware |-> hw, prefs |-> p, fired |-> <<>>]
    IN  IF topic = ConfigTopic
        THEN IF payload.error THEN unchanged
             ELSE IF payload.hasSensors THEN applyConfig(unchanged, 1, cb, payload.sensors, ub)
             ELSE unchanged
        ELSE IF topic = EnableTopic
        THEN IF payload.error THEN unchanged
             ELSE LET hardwareKey == payload.hardware
                      enabled     == payload.enabled = "true"    \* false when absent
                      after       == setHardwareEnabled(hw, hardwareKey, enabled)
                  IN  IF hardwareKey # Null
                      THEN [hardware |-> after,
                            prefs    |-> saveHardwareEnabled(p, hardwareKey, enabled),
                            \* seen: what isHardwareEnabled answers inside the callback
                            fired    |-> IF cb.enable
                                         THEN <<[cb |-> "onEnableChange",
                                                 key |-> hardwareKey, value |-> enabled,
                                                 seen |-> isHardwareEnabled(after, hardwareKey)]>>
                                         ELSE <<>>]
                      ELSE unchanged
        ELSE unchanged

-----------------------------------------------------------------------------
(* Inputs the host may pass *)

ShortKey == <<"d">>
LongKey  == Rep("k", KeySize - 1)          \* fills HardwareDef::key exactly
LongKeyX == LongKey \o <<"x">>             \* one character too long

ShortType == <<"t">>
LongType  == Rep("s", TypeSize - 1)
LongTypeX == LongType \o <<"y">>

\* inputs of the registry specification
KeyInputs   == {<<>>, ShortKey, LongKey}
TypeInputs  == {ShortType, LongType}
NameInputs  == {Null}
ValueInputs == {Finite(2350), NaN}

\* inputs of the truncation specification: strings longer than the fields
LongKeyInputs  == {ShortKey, LongKey, LongKeyX}
LongTypeInputs == {ShortType, LongType, LongTypeX}

IntervalInputs == {1000}

\* keys for the calls on hardware that may not exist
FrameKeys == {ShortKey, <<"b">>, LongKeyX}

\* inputs of the status specification
StatusKeys  == {ShortKey, <<"b">>}
StatusTypes == {ShortType, <<"h">>}
BufferSizes == {40, 128}
Libcs       == {"unchecked", "checked"}

\* inbound messages: topics and payloads
Topics == {ConfigTopic, EnableTopic, "m/sensors/other"}

Payloads ==
    { Payload(TRUE,  Null,     "absent", FALSE, {}),      \* not JSON
      Payload(FALSE, ShortKey, "true",   FALSE, {}),      \* {"hardware":"d","enabled":true}
      Payload(FALSE, ShortKey, "false",  FALSE, {}),      \* {"hardware":"d","enabled":false}
      Payload(FALSE, ShortKey, "absent", FALSE, {}),      \* {"hardware":"d"}
      Payload(FALSE, Null,     "true",   FALSE, {}),      \* {"enabled":true}
      Payload(FALSE, Null,     "absent", TRUE,            \* {"sensors":{"d":{"interval":2}}}
              {[key |-> ShortKey, hasInterval |-> TRUE, interval |-> 2]}),
      Payload(FALSE, Null,     "absent", TRUE,            \* {"sensors":{"d":{}}}
              {[key |-> ShortKey, hasInterval |-> FALSE, interval |-> 0]}),
      Payload(FALSE, Null,     "absent", FALSE, {}) }     \* {}

\* config messages: one key, two keys, an entry without interval, an interval
\* whose milliseconds do not fit an int, a key of 31 characters, an unknown key
Entry(key, interval) == [key |-> key, hasInterval |-> TRUE, interval |-> interval]
ConfigKeys == {ShortKey, <<"b">>, LongKey, LongKeyX}
ConfigPayloads ==
    { Payload(FALSE, Null, "absent", TRUE, {Entry(ShortKey, 2)}),
      Payload(FALSE, Null, "absent", TRUE, {Entry(ShortKey, 30), Entry(<<"b">>, 5)}),
      Payload(FALSE, Null, "absent", TRUE,
              {[key |-> ShortKey, hasInterval |-> FALSE, interval |-> 0], Entry(<<"b">>, 5)}),
      Payload(FALSE, Null, "absent", TRUE, {Entry(ShortKey, (MaxInt32 \div 1000) + 1)}),
      Payload(FALSE, Null, "absent", TRUE, {Entry(LongKey, 3)}),
      Payload(FALSE, Null, "absent", TRUE, {Entry(<<"z">>, 4)}) }

\* config messages with intervals of every sign: a usual one, zero, a negative
\* one, and one whose milliseconds do not fit an int
IntervalPayloads ==
    { Payload(FALSE, Null, "absent", TRUE, {Entry(ShortKey, 2)}),
      Payload(FALSE, Null, "absent", TRUE, {Entry(ShortKey, 0)}),
      Payload(FALSE, Null, "absent", TRUE, {Entry(ShortKey, -3)}),
      Payload(FALSE, Null, "absent", TRUE, {Entry(ShortKey, (MaxInt32 \div 1000) + 1)}) }

\* the messages whose settings are to outlive a restart
PersistPayloads ==
    { Payload(FALSE, ShortKey, "true",   FALSE, {}),
      Payload(FALSE, ShortKey, "false",  FALSE, {}),
      Payload(FALSE, Null, "absent", TRUE, {Entry(ShortKey, 2)}),
      Payload(FALSE, Null, "absent", TRUE, {Entry(ShortKey, (MaxInt32 \div 1000) + 1)}) }

\* the messages that arrive while loop() runs
EnableMessages ==
    { Payload(FALSE, ShortKey, "true",  FALSE, {}),
      Payload(FALSE, ShortKey, "false", FALSE, {}) }

\* what a host may pass to registerHardware and addSensor: a key with a colon
\* in it, an empty sensor type
PairKeys  == {ShortKey, <<"a", ":", "b">>}
PairTypes == {ShortType, <<>>}

\* composite keys: the strings of at most MaxPart characters over a, b and
\* the colon, and the buffer sizes tried
MaxPart == 2
PartChars == {"a", "b", ":"}
PartInputs == UNION {[1..n -> PartChars] : n \in 0..MaxPart}
CompositeInputs ==
    {Null} \cup PartInputs \cup {h \o <<":">> \o t : h \in PartInputs, t \in PartInputs}
BuildSizes == {4, 5}
ParseSizes == {2, 3}

\* the listeners a host may register
Listeners == {"first", "second"}

\* the time that may pass between two calls
TickDeltas == {2500, 5000, 5001}

\* the values millis() takes while the registry is exercised
ClockValues == {7}

-----------------------------------------------------------------------------
(* Registry actions: one host call each *)

RECURSIVE SumLen(_)
SumLen(hw) == IF hw = <<>> THEN 0 ELSE Len(Head(hw).sensors) + SumLen(Tail(hw))

WithinBounds(hw) == Len(hw) <= MaxHw /\ SumLen(hw) <= MaxSensors

Called(op, key, ret) == lastOp' = [op |-> op, key |-> key, ret |-> ret]

RegisterHardware(Keys, Names) ==
    \E key \in Keys, name \in Names :
        LET r == registerHardware(hardware, key, name)
        IN  /\ WithinBounds(r.hardware)
            /\ hardware' = r.hardware
            /\ Called("registerHardware", key, r.ret)
            /\ statusOut' = NoStatus
        /\ UNCHANGED <<now, connVars, facVars>>

AddSensor(Keys, Types) ==
    \E key \in Keys, type \in Types :
        LET r == addSensor(hardware, key, type)
        IN  /\ WithinBounds(r.hardware)
            /\ hardware' = r.hardware
            /\ Called("addSensor", key, r.ret)
            /\ statusOut' = NoStatus
        /\ UNCHANGED <<now, connVars, facVars>>

UpdateSensorValue(Keys, Types, Values) ==
    \E key \in Keys, type \in Types, value \in Values :
        /\ hardware' = updateSensorValue(hardware, key, type, value, millis)
        /\ Called("updateSensorValue", key, TRUE)
        /\ statusOut' = NoStatus
        /\ UNCHANGED <<now, connVars, facVars>>

SetHardwareEnabled(Keys) ==
    \E key \in Keys, enabled \in BOOLEAN :
        /\ hardware' = setHardwareEnabled(hardware, key, enabled)
        /\ Called("setHardwareEnabled", key, enabled)
        /\ statusOut' = NoStatus
        /\ UNCHANGED <<now, connVars, facVars>>

SetHardwareInterval(Keys, Intervals) ==
    \E key \in Keys, intervalMs \in Intervals :
        /\ hardware' = setHardwareInterval(hardware, key, intervalMs)
        /\ Called("setHardwareInterval", key, TRUE)
        /\ statusOut' = NoStatus
        /\ UNCHANGED <<now, connVars, facVars>>

BuildStatusJson(Sizes) ==
    \E bufferSize \in Sizes, libc \in Libcs :
        /\ statusOut' = buildStatusJson(hardware, bufferSize, libc)
        /\ hardware' = registryAfterStatus(hardware)
        /\ Called("buildStatusJson", Null, TRUE)
        /\ UNCHANGED <<now, connVars, facVars>>

-----------------------------------------------------------------------------
(* Connection and scheduler actions *)

NoAttempt == [at |-> -1, by |-> "none", prevAt |-> -1, prevBy |-> "none"]

\* history: a connection attempt (or an explicit connect() call) made now
Attempted(by) == [at |-> now, by |-> by, prevAt |-> attempts.at, prevBy |-> attempts.by]

\* time passes between two calls of the host
Advance(Deltas) ==
    \E d \in Deltas :
        /\ now + d <= MaxUptime
        /\ now' = now + d
        /\ UNCHANGED <<regVars, connVars, facVars>>

\* time passes, up to a horizon of its own
AdvanceUntil(Deltas, horizon) ==
    \E d \in Deltas :
        /\ now + d <= horizon
        /\ now' = now + d
        /\ UNCHANGED <<regVars, connVars, facVars>>

\* MqttClient::setBroker
SetBroker ==
    /\ mqtt' = [mqtt EXCEPT !.host = TRUE]
    /\ Called("setBroker", Null, TRUE)
    /\ sent' = <<>>
    /\ UNCHANGED <<hardware, statusOut, now, sched, attempts, notified, facVars, emitted>>

\* an explicit MqttClient::connect() call by the host (IotMesurable::begin ends with one)
Connect ==
    LET c == mqttConnect(mqtt, millis)
    IN  /\ mqtt' = c.mqtt
        /\ attempts' = IF c.ret THEN Attempted("connect") ELSE attempts
        /\ Called("connect", Null, c.ret)
        /\ sent' = <<>>
        /\ UNCHANGED <<hardware, statusOut, now, sched, notified, facVars, emitted>>

\* the transport reports the connection established
TransportConnected ==
    /\ mqtt.link = "connecting"
    /\ LET e == onTransportEvent(mqtt, TRUE)
       IN  /\ mqtt' = e.mqtt
           /\ notified' = e.notified
           /\ facade' = [facade EXCEPT !.trace = connectLambdas(facade, e.mqtt, e.notified)]
    /\ Called("onConnect", Null, TRUE)
    /\ sent' = <<>>
    /\ UNCHANGED <<hardware, statusOut, now, sched, attempts, emitted>>
    /\ UNCHANGED <<prefs, callbacks, inbound, fired, pc, keyOut, applied>>

\* the transport reports the connection lost, or the attempt failed
TransportDisconnected ==
    /\ mqtt.link # "disconnected"
    /\ LET e == onTransportEvent(mqtt, FALSE)
       IN  /\ mqtt' = e.mqtt
           /\ notified' = e.notified
           /\ facade' = [facade EXCEPT !.trace = connectLambdas(facade, e.mqtt, e.notified)]
    /\ Called("onConnect", Null, FALSE)
    /\ sent' = <<>>
    /\ UNCHANGED <<hardware, statusOut, now, sched, attempts, emitted>>
    /\ UNCHANGED <<prefs, callbacks, inbound, fired, pc, keyOut, applied>>

\* MqttClient::onConnect: the host registers a listener
OnConnect(Callbacks) ==
    \E callback \in Callbacks :
        /\ mqtt' = mqttOnConnect(mqtt, callback)
        /\ Called("MqttClient::onConnect", <<callback>>, TRUE)
        /\ sent' = <<>>
        /\ UNCHANGED <<hardware, statusOut, now, sched, attempts, notified, facVars, emitted>>

NoneEmitted == [t \in {"sensors/status", "system/config", "sensors/config"} |->
                    [at |-> -1, prevAt |-> -1]]

\* the history after a call that handed the topics of out to the transport at nowMs
Emit(e, out, nowMs) ==
    [t \in DOMAIN e |->
        IF \E i \in 1..Len(out) : out[i] = t
        THEN [at |-> nowMs, prevAt |-> e[t].at]
        ELSE e[t]]

\* MqttClient::loop alone
MqttLoop ==
    LET l == mqttLoop(mqtt, millis)
    IN  /\ mqtt' = l.mqtt
        /\ attempts' = IF l.requested THEN Attempted("tick") ELSE attempts
        /\ Called("loop", Null, l.requested)
        /\ sent' = <<>>
        /\ UNCHANGED <<hardware, statusOut, now, sched, notified, facVars, emitted>>

\* IotMesurable::loop: _mqtt->loop(), then the scheduler
Loop ==
    LET l == mqttLoop(mqtt, millis)
        t == schedulerTick(sched, l.mqtt, millis)
    IN  /\ mqtt' = l.mqtt
        /\ attempts' = IF l.requested THEN Attempted("tick") ELSE attempts
        /\ sched' = t.sched
        /\ sent' = t.sent
        /\ emitted' = Emit(emitted, t.sent, millis)
        /\ Called("loop", Null, l.requested)
        /\ UNCHANGED <<hardware, statusOut, now, notified, facVars>>

-----------------------------------------------------------------------------
(* Facade actions *)

Idle == [at |-> "idle"]

\* IotMesurable::registerHardware
IotRegisterHardware(Keys, Names) ==
    \E key \in Keys, name \in Names :
        LET r == IotMesurable_registerHardware(hardware, prefs, key, name)
        IN  /\ WithinBounds(r)
            /\ hardware' = r
            /\ Called("IotMesurable::registerHardware", key, TRUE)
            /\ statusOut' = NoStatus
            /\ UNCHANGED <<now, connVars, facVars>>

\* IotMesurable::publish
Publish(Keys, Types, Values) ==
    \E key \in Keys, type \in Types, value \in Values :
        LET r == IotMesurable_publish(hardware, mqtt, key, type, value, millis)
        IN  /\ hardware' = r.hardware
            /\ sent' = r.sent
            /\ Called("publish", key, TRUE)
            /\ statusOut' = NoStatus
            /\ UNCHANGED <<now, mqtt, sched, attempts, notified, facVars, emitted>>

\* IotMesurable::begin
Begin ==
    \E wifi \in BOOLEAN, storedBroker \in BOOLEAN :
        LET b == begin(mqtt, wifi, storedBroker, millis)
        IN  /\ mqtt' = b.mqtt
            /\ attempts' = IF b.requested THEN Attempted("connect") ELSE attempts
            /\ Called("begin", Null, b.ret)
            /\ sent' = <<>>
            /\ UNCHANGED <<hardware, statusOut, now, sched, notified, facVars, emitted>>

\* IotMesurable::onConnect: the host registers its connection callback
FacadeOnConnect(Callbacks) ==
    \E callback \in Callbacks :
        /\ facade' = [facade EXCEPT !.onConnect = callback]
        /\ Called("IotMesurable::onConnect", <<callback>>, TRUE)
        /\ sent' = <<>>
        /\ UNCHANGED <<hardware, statusOut, now, connVars>>
        /\ UNCHANGED <<prefs, callbacks, inbound, fired, pc, keyOut, applied>>

\* IotMesurable::onConfigChange
OnConfigChange ==
    /\ callbacks' = [callbacks EXCEPT !.config = TRUE]
    /\ Called("onConfigChange", Null, TRUE)
    /\ UNCHANGED <<hardware, statusOut, now, connVars, prefs, inbound, fired, pc, keyOut, applied, facade>>

\* IotMesurable::onEnableChange
OnEnableChange ==
    /\ callbacks' = [callbacks EXCEPT !.enable = TRUE]
    /\ Called("onEnableChange", Null, TRUE)
    /\ UNCHANGED <<hardware, statusOut, now, connVars, prefs, inbound, fired, pc, keyOut, applied, facade>>

NoneApplied == [log |-> {}, restarted |-> FALSE, quiet |-> TRUE]

\* the history after a message: for every hardware of the registry the message
\* names, the enabled flag or the interval in seconds it carries replaces the
\* one noted before
Carried(a, hw, topic, payload) ==
    LET news ==
            IF payload.error THEN {}
            ELSE IF topic = EnableTopic
            THEN IF payload.hardware # Null /\ payload.enabled # "absent"
                    /\ hasHardware(hw, payload.hardware)
                 THEN {<<"enable", payload.hardware, payload.enabled = "true">>}
                 ELSE {}
            ELSE IF topic = ConfigTopic /\ payload.hasSensors
            THEN {<<"config", e.key, e.interval>> :
                    e \in {x \in payload.sensors : x.hasInterval /\ hasHardware(hw, x.key)}}
            ELSE {}
    IN  [a EXCEPT !.log = {o \in @ : \A n \in news : o[1] # n[1] \/ o[2] # n[2]} \cup news,
                  !.quiet = FALSE]

\* the AsyncMqttClient onMessage callback: the transport, connected, delivers
\* a message and handleMqttMessage runs on it
Message(TopicSet, PayloadSet) ==
    \E topic \in TopicSet, payload \in PayloadSet, ub \in IntOverflows :
        LET r == handleMqttMessage(hardware, prefs, callbacks, topic, payload, ub)
        IN  /\ isConnected(mqtt)
            /\ hardware' = r.hardware
            /\ prefs' = r.prefs
            /\ fired' = r.fired
            /\ inbound' = [topic |-> topic, payload |-> payload]
            /\ applied' = Carried(applied, hardware, topic, payload)
            /\ Called("message", Null, TRUE)
            /\ UNCHANGED <<statusOut, now, connVars, callbacks, facade, pc, keyOut>>

-----------------------------------------------------------------------------
(* IotMesurable::loop in the steps that a message delivery can fall between. *)
(* The message callback is registered with the AsyncMqttClient and called by *)
(* it; neither MqttClient::loop nor IotMesurable::loop dispatches messages.  *)

StatusBufferSize == 1024    \* char sensorsBuffer[1024] in publishStatus

\* a call made by the host's own code, which runs between two loop() calls
Host(A) == pc.at = "idle" /\ A

\* the status publication is due and the link is up
StatusDue(m) == isConnected(m) /\ Elapsed(millis, sched.lastStatusPublish) >= STATUS_INTERVAL

\* loop() up to the opening brace written by buildStatusJson
LoopEnter ==
    LET l == mqttLoop(mqtt, millis)
    IN  /\ pc.at = "idle"
        /\ StatusDue(l.mqtt)
        /\ mqtt' = l.mqtt
        /\ attempts' = IF l.requested THEN Attempted("tick") ELSE attempts
        /\ sched' = [sched EXCEPT !.lastStatusPublish = millis]
        /\ \E libc \in Libcs :
                pc' = [at |-> "buildStatusJson", now |-> millis, i |-> 1, first |-> TRUE,
                       st |-> snprintfAt([buf |-> [i \in 1..StatusBufferSize |-> Indeterminate],
                                          written |-> 0, oob |-> FALSE],
                                         StatusBufferSize, <<"{">>, libc)]
        /\ sent' = <<>>
        /\ Called("loop", Null, l.requested)
        /\ UNCHANGED <<hardware, statusOut, now, notified, prefs, callbacks, facade, inbound, fired, keyOut, applied, emitted>>

\* one round of buildStatusJson's loop over the hardware
StatusHardware ==
    /\ pc.at = "buildStatusJson"
    /\ pc.i <= Len(hardware)
    /\ \E libc \in Libcs :
            pc' = [pc EXCEPT !.i = @ + 1,
                             !.first = @ /\ Len(hardware[pc.i].sensors) = 0,
                             !.st = PrintAll(@, StatusBufferSize,
                                             SensorPieces(hardware[pc.i], 1, pc.first), libc)]
    /\ Called("loop", Null, FALSE)
    /\ UNCHANGED <<hardware, statusOut, now, connVars, prefs, callbacks, facade, inbound, fired, keyOut, applied>>

\* the closing brace, the status publication, and the rest of loop()
LoopLeave ==
    /\ pc.at = "buildStatusJson"
    /\ pc.i > Len(hardware)
    /\ \E libc \in Libcs :
            LET st == snprintfAt(pc.st, StatusBufferSize, <<"}">>, libc)
            IN  statusOut' = [called |-> TRUE, bufferSize |-> StatusBufferSize,
                              text |-> CString(st.buf, 1), written |-> st.written,
                              oob |-> st.oob]
    /\ LET t == schedulerTick([sched EXCEPT !.lastStatusPublish = pc.now], mqtt, pc.now)
       IN  /\ sched' = t.sched
           /\ sent' = publishStatus(mqtt) \o t.sent
           /\ emitted' = Emit(emitted, publishStatus(mqtt) \o t.sent, pc.now)
    /\ pc' = Idle
    /\ Called("loop", Null, FALSE)
    /\ UNCHANGED <<hardware, now, mqtt, attempts, notified, prefs, callbacks, facade, inbound, fired, keyOut, applied>>

\* a loop() call that does not publish the status
LoopQuiet ==
    /\ pc.at = "idle"
    /\ ~StatusDue(mqttLoop(mqtt, millis).mqtt)
    /\ Loop

-----------------------------------------------------------------------------
(* Composite-key actions.  keyOut holds the arguments of the last call and *)
(* what it left: text for buildCompositeKey, ret and the two parts for     *)
(* parseCompositeKey.                                                      *)

NoKey == [op |-> "none", hardwareKey |-> Null, sensorType |-> Null, bufferSize |-> 0,
          text |-> Null, parseSize |-> 0, ret |-> FALSE,
          outHardware |-> Unwritten, outSensor |-> Unwritten]

\* SensorRegistry::buildCompositeKey
BuildCompositeKey(Hws, Types, Sizes) ==
    \E hardwareKey \in Hws, sensorType \in Types, bufferSize \in Sizes :
        /\ keyOut' = [NoKey EXCEPT !.op = "build",
                                   !.hardwareKey = hardwareKey,
                                   !.sensorType = sensorType,
                                   !.bufferSize = bufferSize,
                                   !.text = buildCompositeKey(hardwareKey, sensorType,
                                                              bufferSize)]
        /\ Called("buildCompositeKey", Null, TRUE)
        /\ UNCHANGED <<hardware, statusOut, now, connVars, prefs, callbacks, facade, inbound,
                       fired, pc, applied>>

\* SensorRegistry::parseCompositeKey on a string of the caller
ParseCompositeKey(Inputs, Sizes) ==
    \E compositeKey \in Inputs, bufferSize \in Sizes :
        LET r == parseCompositeKey(compositeKey, bufferSize)
        IN  /\ keyOut' = [NoKey EXCEPT !.op = "parse",
                                       !.text = compositeKey,
                                       !.parseSize = bufferSize,
                                       !.ret = r.ret,
                                       !.outHardware = r.hardwareKey,
                                       !.outSensor = r.sensorType]
            /\ Called("parseCompositeKey", Null, r.ret)
            /\ UNCHANGED <<hardware, statusOut, now, connVars, prefs, callbacks, facade, inbound,
                           fired, pc, applied>>

\* SensorRegistry::parseCompositeKey on what buildCompositeKey has just left
ParseBuiltKey(Sizes) ==
    \E bufferSize \in Sizes :
        LET r == parseCompositeKey(keyOut.text, bufferSize)
        IN  /\ keyOut.op = "build"
            /\ keyOut' = [keyOut EXCEPT !.op = "roundtrip",
                                        !.parseSize = bufferSize,
                                        !.ret = r.ret,
                                        !.outHardware = r.hardwareKey,
                                        !.outSensor = r.sensorType]
            /\ Called("parseCompositeKey", Null, r.ret)
            /\ UNCHANGED <<hardware, statusOut, now, connVars, prefs, callbacks, facade, inbound,
                           fired, pc, applied>>

NoOp == [op |-> "none", key |-> Null, ret |-> TRUE]

\* the device restarts: every object is constructed anew, the preferences
\* stay in flash
Restart ==
    /\ hardware' = <<>>
    /\ now' \in ClockValues
    /\ statusOut' = NoStatus
    /\ mqtt' = MqttInit
    /\ sched' = SchedInit
    /\ sent' = <<>>
    /\ attempts' = NoAttempt
    /\ notified' = <<>>
    /\ callbacks' = [config |-> FALSE, enable |-> FALSE]
    /\ facade' = FacadeInit
    /\ inbound' = NoMessage
    /\ fired' = <<>>
    /\ pc' = Idle
    /\ keyOut' = NoKey
    /\ applied' = [applied EXCEPT !.restarted = TRUE, !.quiet = TRUE]
    /\ Called("restart", Null, TRUE)
    /\ emitted' = NoneEmitted
    /\ UNCHANGED prefs

Init ==
    /\ hardware = <<>>
    /\ now \in ClockValues
    /\ lastOp = NoOp
    /\ statusOut = NoStatus
    /\ mqtt = MqttInit
    /\ sched = SchedInit
    /\ sent = <<>>
    /\ attempts = NoAttempt
    /\ notified = <<>>
    /\ emitted = NoneEmitted
    /\ prefs = {}
    /\ callbacks = [config |-> FALSE, enable |-> FALSE]
    /\ facade = FacadeInit
    /\ inbound = NoMessage
    /\ fired = <<>>
    /\ pc = Idle
    /\ keyOut = NoKey
    /\ applied = NoneApplied

\* the times between two looks at the clock: half a status period, or a whole one
SchedDeltas == {STATUS_INTERVAL \div 2, STATUS_INTERVAL}

\* the counter 12.5 s before it wraps from 2^32 - 1 to 0
WrapStart == -12500

\* the counter where the run across the wrap ends
WrapHorizon == 7500

\* A device that has run for seven weeks, just after a loop() call made at
\* WrapStart on a client with a broker set and no connection, and with every
\* timer older than its interval: the call started a connection attempt and
\* set the three scheduler timers; nothing was published.
InitWrap ==
    /\ hardware = <<>>
    /\ now = WrapStart
    /\ lastOp = [op |-> "loop", key |-> Null, ret |-> TRUE]
    /\ statusOut = NoStatus
    /\ mqtt = [MqttInit EXCEPT !.host = TRUE, !.link = clientConnect("disconnected"),
                               !.lastReconnectAttempt = WrapStart]
    /\ sched = [lastStatusPublish |-> WrapStart, lastSystemPublish |-> WrapStart,
                lastConfigPublish |-> WrapStart]
    /\ sent = <<>>
    /\ attempts = [NoAttempt EXCEPT !.at = WrapStart, !.by = "tick"]
    /\ notified = <<>>
    /\ emitted = NoneEmitted
    /\ prefs = {}
    /\ callbacks = [config |-> FALSE, enable |-> FALSE]
    /\ facade = FacadeInit
    /\ inbound = NoMessage
    /\ fired = <<>>
    /\ pc = Idle
    /\ keyOut = NoKey
    /\ applied = NoneApplied

(* loop() while the counter wraps *)
NextWrap ==
    \/ SetBroker
    \/ Connect
    \/ TransportConnected
    \/ TransportDisconnected
    \/ Loop
    \/ AdvanceUntil(SchedDeltas, WrapHorizon)

SpecWrap == InitWrap /\ [][NextWrap]_vars

(* The registry under register / add / update / enable calls *)
Next ==
    \/ RegisterHardware(KeyInputs, NameInputs)
    \/ AddSensor(KeyInputs, TypeInputs)
    \/ UpdateSensorValue(KeyInputs, TypeInputs, ValueInputs)
    \/ SetHardwareEnabled(KeyInputs)

Spec == Init /\ [][Next]_vars

(* The registry under strings longer than its fields *)
NextTrunc ==
    \/ RegisterHardware(LongKeyInputs, NameInputs)
    \/ AddSensor(LongKeyInputs, LongTypeInputs)
    \/ SetHardwareEnabled(LongKeyInputs)
    \/ SetHardwareInterval(LongKeyInputs, IntervalInputs)

SpecTrunc == Init /\ [][NextTrunc]_vars

(* The registry and its status serializer *)
NextStatus ==
    \/ RegisterHardware(StatusKeys, NameInputs)
    \/ AddSensor(StatusKeys, StatusTypes)
    \/ UpdateSensorValue(StatusKeys, StatusTypes, ValueInputs)
    \/ SetHardwareEnabled(StatusKeys)
    \/ BuildStatusJson(BufferSizes)

SpecStatus == Init /\ [][NextStatus]_vars

(* The MQTT client alone: connect, transport events, loop *)
NextMqtt ==
    \/ SetBroker
    \/ Connect
    \/ TransportConnected
    \/ TransportDisconnected
    \/ MqttLoop
    \/ Advance(TickDeltas)

SpecMqtt == Init /\ [][NextMqtt]_vars

(* The facade's loop: client loop and scheduler *)
NextLoop ==
    \/ SetBroker
    \/ Connect
    \/ TransportConnected
    \/ TransportDisconnected
    \/ Loop
    \/ Advance(TickDeltas)

SpecLoop == Init /\ [][NextLoop]_vars

(* The facade under registrations and inbound messages *)
NextMsg ==
    \/ IotRegisterHardware(StatusKeys, NameInputs)
    \/ AddSensor({ShortKey}, {ShortType})
    \/ OnConfigChange
    \/ OnEnableChange
    \/ SetBroker
    \/ Connect
    \/ TransportConnected
    \/ Message(Topics, Payloads)

SpecMsg == Init /\ [][NextMsg]_vars

(* loop() and the message callback side by side *)
NextConc ==
    \/ Host(IotRegisterHardware(StatusKeys, NameInputs))
    \/ Host(AddSensor(StatusKeys, {ShortType}))
    \/ Host(SetBroker)
    \/ Host(Advance({STATUS_INTERVAL}))
    \/ TransportConnected
    \/ Message({EnableTopic}, EnableMessages)
    \/ LoopEnter
    \/ StatusHardware
    \/ LoopLeave
    \/ LoopQuiet

SpecConc == Init /\ [][NextConc]_vars

(* The client and its connection listener *)
NextListen ==
    \/ OnConnect(Listeners)
    \/ SetBroker
    \/ Connect
    \/ TransportConnected
    \/ TransportDisconnected
    \/ MqttLoop
    \/ Advance({RECONNECT_INTERVAL + 1})

SpecListen == Init /\ [][NextListen]_vars

(* The facade's publish, with the connection and the scheduler *)
NextPub ==
    \/ IotRegisterHardware({ShortKey}, NameInputs)
    \/ AddSensor({ShortKey}, {ShortType})
    \/ SetHardwareEnabled({ShortKey})
    \/ Publish(StatusKeys, StatusTypes, ValueInputs)
    \/ SetBroker
    \/ Connect
    \/ TransportConnected
    \/ TransportDisconnected
    \/ Loop
    \/ Advance({STATUS_INTERVAL})

SpecPub == Init /\ [][NextPub]_vars

(* Inbound config messages *)
NextCfg ==
    \/ IotRegisterHardware(ConfigKeys, NameInputs)
    \/ OnConfigChange
    \/ SetBroker
    \/ Connect
    \/ TransportConnected
    \/ Message({ConfigTopic}, ConfigPayloads)

SpecCfg == Init /\ [][NextCfg]_vars

(* Inbound enable messages on a registry that holds values *)
NextEnable ==
    \/ IotRegisterHardware({ShortKey}, NameInputs)
    \/ AddSensor({ShortKey}, {ShortType})
    \/ UpdateSensorValue({ShortKey}, {ShortType}, ValueInputs)
    \/ OnEnableChange
    \/ SetBroker
    \/ Connect
    \/ TransportConnected
    \/ Message({EnableTopic}, EnableMessages)

SpecEnable == Init /\ [][NextEnable]_vars

(* Settings across restarts *)
NextPersist ==
    \/ IotRegisterHardware(StatusKeys, NameInputs)
    \/ SetBroker
    \/ Connect
    \/ TransportConnected
    \/ Message({ConfigTopic, EnableTopic}, PersistPayloads)
    \/ Restart

SpecPersist == Init /\ [][NextPersist]_vars

(* The registry calls on keys and types it may not hold *)
NextFrame ==
    \/ RegisterHardware({ShortKey, LongKeyX}, NameInputs)
    \/ AddSensor({ShortKey}, {ShortType})
    \/ UpdateSensorValue(FrameKeys, StatusTypes, ValueInputs)
    \/ SetHardwareEnabled(FrameKeys)
    \/ SetHardwareInterval(FrameKeys, IntervalInputs)
    \/ Advance({STATUS_INTERVAL})

SpecFrame == Init /\ [][NextFrame]_vars

(* Config messages with intervals of every sign *)
NextIntervals ==
    \/ IotRegisterHardware(StatusKeys, NameInputs)
    \/ OnConfigChange
    \/ SetBroker
    \/ Connect
    \/ TransportConnected
    \/ Message({ConfigTopic}, IntervalPayloads)
    \/ Restart

SpecIntervals == Init /\ [][NextIntervals]_vars

(* The registry under keys and types of any content *)
NextPairs ==
    \/ RegisterHardware(PairKeys, NameInputs)
    \/ AddSensor(PairKeys, PairTypes)
    \/ UpdateSensorValue(PairKeys, PairTypes, ValueInputs)
    \/ SetHardwareEnabled(PairKeys)

SpecPairs == Init /\ [][NextPairs]_vars

(* The facade from begin() on: the connection lambda and the host's callback *)
NextBegin ==
    \/ Begin
    \/ FacadeOnConnect(Listeners)
    \/ SetBroker
    \/ TransportConnected
    \/ TransportDisconnected
    \/ Loop
    \/ Advance({RECONNECT_INTERVAL + 1})

SpecBegin == Init /\ [][NextBegin]_vars

\* the host calls loop() for long enough that every scheduled publication
\* can leave twice
SchedHorizon == 22500


NextSched ==
    \/ SetBroker
    \/ Connect
    \/ TransportConnected
    \/ TransportDisconnected
    \/ Loop
    \/ AdvanceUntil(SchedDeltas, SchedHorizon)

SpecSched == Init /\ [][NextSched]_vars

(* The client under a host that keeps calling loop() while time passes *)
NextLive ==
    \/ SetBroker
    \/ TransportConnected
    \/ TransportDisconnected
    \/ MqttLoop
    \/ Advance(TickDeltas)

SpecLive ==
    /\ Init /\ [][NextLive]_vars
    /\ WF_vars(MqttLoop)
    /\ WF_vars(Advance(TickDeltas))

(* The composite-key functions *)
NextKey ==
    \/ BuildCompositeKey(PartInputs, PartInputs, BuildSizes)
    \/ ParseCompositeKey(CompositeInputs, ParseSizes)
    \/ ParseBuiltKey(ParseSizes)

SpecKey == Init /\ [][NextKey]_vars

-----------------------------------------------------------------------------
(* Claims about the registry *)

Sensors(i) == hardware[i].sensors
HwIdx == 1..Len(hardware)

\* C1: every sensor's stored status is "disabled" iff its hardware is disabled;
\* otherwise it is "ok" iff a value is present and finite, and "missing" otherwise.
C1_StatusInvariant ==
    \A i \in HwIdx : \A j \in 1..Len(Sensors(i)) :
        LET h == hardware[i]
            s == Sensors(i)[j]
        IN  /\ (s.status = "disabled") <=> ~h.enabled
            /\ h.enabled =>
                    IF s.hasValue /\ ~isnan(s.lastValue)
                    THEN s.status = "ok" ELSE s.status = "missing"

\* C2: no two registry entries hold the same stored key, and the stored key of
\* an entry never changes once registered.
C2_KeysUniqueAndImmutable ==
    /\ [](\A i, j \in HwIdx : i # j => hardware[i].key # hardware[j].key)
    /\ [][\A i \in HwIdx : i <= Len(hardware') /\ hardware'[i].key = hardware[i].key]_vars

\* C8: registering a key that is already present returns failure and leaves
\* the whole registry as it was.
C8_DuplicateRegistrationRejected ==
    [][lastOp'.op = "registerHardware" /\ hasHardware(hardware, lastOp'.key)
            => hardware' = hardware /\ ~lastOp'.ret]_vars

\* a duplicate registration was rejected on a hardware that holds a sensor with a value
C8_Witness ==
    /\ lastOp.op = "registerHardware" /\ ~lastOp.ret
    /\ hasHardware(hardware, lastOp.key)
    /\ LET h == hardware[findHardwareIndex(hardware, lastOp.key)]
       IN  ~h.enabled /\ \E j \in 1..Len(h.sensors) : h.sensors[j].hasValue

\* C9: no hardware holds two sensors with the same stored type, and an add_sensor
\* for a type already present fails and leaves the sensor list unchanged.
C9_SensorTypesUnique ==
    /\ \A i \in HwIdx : \A j, k \in 1..Len(Sensors(i)) :
            j # k => Sensors(i)[j].type # Sensors(i)[k].type
    /\ \A key \in LongKeyInputs, ty \in LongTypeInputs :
            hasSensor(hardware, key, ty)
                => addSensor(hardware, key, ty) = [ret |-> FALSE, hardware |-> hardware]

\* C10: add_sensor on a key that is not registered fails, changes nothing and
\* does not make has_hardware(key) true.
C10_AddSensorUnknownHardware ==
    [][lastOp'.op = "addSensor" /\ ~hasHardware(hardware, lastOp'.key)
            => /\ hardware' = hardware
               /\ ~lastOp'.ret
               /\ ~hasHardware(hardware', lastOp'.key)]_vars

\* add_sensor was refused for a non-empty key while other hardware is registered
C10_Witness ==
    /\ lastOp.op = "addSensor" /\ ~lastOp.ret
    /\ lastOp.key # <<>>
    /\ ~hasHardware(hardware, lastOp.key)
    /\ Len(hardware) > 0

\* C3: build_status never stores a byte at or past the buffer size, its running
\* offset never exceeds the buffer size, and what it leaves in the buffer is a
\* prefix of the full encoding that ends on an entry boundary.
RECURSIVE Concat(_)
Concat(pieces) == IF pieces = <<>> THEN <<>> ELSE Head(pieces) \o Concat(Tail(pieces))

IsPrefix(a, b) == Len(a) <= Len(b) /\ SubSeq(b, 1, Len(a)) = a

\* the encodings cut after a whole number of snprintf texts
WholePrefixes(hw) ==
    LET p == StatusPieces(hw) IN {Concat(SubSeq(p, 1, n)) : n \in 0..Len(p)}

C3_StatusWithinBuffer ==
    statusOut.called =>
        /\ ~statusOut.oob
        /\ statusOut.written <= statusOut.bufferSize
        /\ statusOut.text \in WholePrefixes(hardware)

-----------------------------------------------------------------------------
(* Claims about the scheduler, the connection and inbound messages *)

\* C4: a loop() call made while the connection is down publishes nothing and
\* leaves the three last-publication timestamps as they were.
C4_DisconnectedTickKeepsLastFired ==
    [][Loop /\ ~isConnected(mqtt) => sent' = <<>> /\ sched' = sched]_vars

\* a payload that does not parse, or that lacks a member its topic requires
Malformed(topic, payload) ==
    \/ payload.error
    \/ topic = EnableTopic /\ (payload.hardware = Null \/ payload.enabled = "absent")
    \/ topic = ConfigTopic
        /\ (~payload.hasSensors \/ \A e \in payload.sensors : ~e.hasInterval)

\* C5: a malformed message on the config or enable topic is dropped: the
\* registry and the preferences stay as they were and no callback is invoked.
C5_MalformedMessageDropped ==
    [][\A topic \in {ConfigTopic, EnableTopic}, payload \in Payloads :
            Message({topic}, {payload}) /\ Malformed(topic, payload)
                => hardware' = hardware /\ prefs' = prefs /\ fired' = <<>>]_vars

\* C7: an attempt initiated by loop() comes at least RECONNECT_INTERVAL after
\* the attempt before it, be that one initiated by loop() or by a connect()
\* call that went through (a broker being set).
C7_ReconnectThrottle ==
    attempts.by = "tick" /\ attempts.prevBy # "none"
        => attempts.at - attempts.prevAt >= RECONNECT_INTERVAL

\* loop() reconnected as soon as the throttle let it, after an explicit connect()
C7_Witness ==
    /\ attempts.by = "tick" /\ attempts.prevBy = "connect"
    /\ attempts.at - attempts.prevAt = RECONNECT_INTERVAL + 1
    /\ lastOp.op = "loop"

\* C6: the message handler never runs while a loop() call is under way, so
\* no registry mutation by a handler falls between two reads of the serializer.
C6_HandlerOnlyBetweenLoops ==
    [][Message({EnableTopic}, EnableMessages) => pc.at = "idle"]_vars

-----------------------------------------------------------------------------
(* Reading the status encoding back *)

\* the least position from `from` on at which pat occurs in text, 0 if none
IndexOf(text, pat, from) ==
    LET hits == {i \in from..(Len(text) - Len(pat) + 1) :
                    SubSeq(text, i, i + Len(pat) - 1) = pat}
    IN  IF hits = {} THEN 0 ELSE CHOOSE i \in hits : \A k \in hits : i <= k

RECURSIVE NthIndexOf(_, _, _, _)
\* the position of the n-th occurrence of pat in text from `from` on, 0 if none
NthIndexOf(text, pat, n, from) ==
    LET i == IndexOf(text, pat, from)
    IN  IF i = 0 \/ n <= 1 THEN i ELSE NthIndexOf(text, pat, n - 1, i + Len(pat))

\* the characters of text from position i up to, not including, the next stop
Upto(text, i, stop) ==
    LET e == IndexOf(text, stop, i)
    IN  IF e = 0 THEN SubSeq(text, i, Len(text)) ELSE SubSeq(text, i, e - 1)

StatusMarker == <<Q, "s", "t", "a", "t", "u", "s", Q, ":", Q>>
ValueMarker  == <<Q, "v", "a", "l", "u", "e", Q, ":">>

\* the status / value member of the n-th entry of an encoding
StatusField(text, n) ==
    LET i == NthIndexOf(text, StatusMarker, n, 1)
    IN  IF i = 0 THEN <<>> ELSE Upto(text, i + Len(StatusMarker), <<Q>>)

ValueField(text, n) ==
    LET i == NthIndexOf(text, ValueMarker, n, 1)
    IN  IF i = 0 THEN <<>> ELSE Upto(text, i + Len(ValueMarker), <<"}">>)

RECURSIVE Pairs(_, _)
\* the (hardware index, sensor index) pairs of the registry, in insertion order
Pairs(hw, i) ==
    IF i > Len(hw) THEN <<>>
    ELSE [j \in 1..Len(hw[i].sensors) |-> <<i, j>>] \o Pairs(hw, i + 1)

\* the whole encoding is in the buffer
StatusComplete == statusOut.called /\ statusOut.written < statusOut.bufferSize

\* C11: while a hardware is disabled, every sensor under it is reported as
\* "disabled" by build_status and its stored status is "disabled" too.
C11_DisabledHardwareReportsDisabled ==
    /\ \A i \in HwIdx : ~hardware[i].enabled =>
            \A j \in 1..Len(Sensors(i)) : Sensors(i)[j].status = "disabled"
    /\ StatusComplete =>
            LET p == Pairs(hardware, 1)
            IN  \A n \in 1..Len(p) :
                    ~hardware[p[n][1]].enabled
                        => StatusField(statusOut.text, n) = StatusChars("disabled")

\* the sensor that a lookup of (key, type) finds in registry hw
SensorAt(hw, key, type) ==
    LET idx == findHardwareIndex(hw, key)
    IN  hw[idx].sensors[findSensorIndex(hw[idx], type)]

\* C12: update_value with a finite value on an existing sensor of an enabled
\* hardware leaves the sensor with status "ok", has_value true and that value.
C12_FiniteUpdateGivesOk ==
    [][lastOp'.op = "updateSensorValue" =>
        \A key \in {lastOp'.key}, type \in TypeInputs, value \in ValueInputs :
            /\ ~isnan(value)
            /\ hasSensor(hardware, key, type)
            /\ isHardwareEnabled(hardware, key)
            /\ UpdateSensorValue({key}, {type}, {value})
            => LET s == SensorAt(hardware', key, type)
               IN  s.status = "ok" /\ s.hasValue /\ s.lastValue = value]_vars

\* a finite value was recorded on a sensor of an enabled hardware
C12_Witness ==
    /\ lastOp.op = "updateSensorValue"
    /\ isHardwareEnabled(hardware, lastOp.key)
    /\ \E type \in TypeInputs :
            /\ hasSensor(hardware, lastOp.key, type)
            /\ LET s == SensorAt(hardware, lastOp.key, type)
               IN  s.status = "ok" /\ s.hasValue /\ s.lastValue = Finite(2350)
                   /\ s.lastUpdate = millis

\* C13: update_value with NaN on an existing sensor of an enabled hardware
\* records the timestamp and stores status "missing"; and whenever set_enabled
\* recomputes the status of a sensor whose last value is NaN, the sensor counts
\* as having no value.
C13_NaNCountsAsNoValue ==
    [][/\ lastOp'.op = "updateSensorValue" =>
            \A key \in {lastOp'.key}, type \in TypeInputs :
                /\ hasSensor(hardware, key, type)
                /\ isHardwareEnabled(hardware, key)
                /\ UpdateSensorValue({key}, {type}, {NaN})
                => LET s == SensorAt(hardware', key, type)
                   IN  s.status = "missing" /\ s.lastUpdate = millis
       /\ lastOp'.op = "setHardwareEnabled" =>
            \A i \in 1..Len(hardware') : \A j \in 1..Len(hardware'[i].sensors) :
                LET s == hardware'[i].sensors[j]
                IN  hardware'[i].enabled /\ s.hasValue /\ isnan(s.lastValue)
                        => s.status = "missing"]_vars

RECURSIVE Joined(_)
\* the texts of a sequence, comma separated
Joined(texts) ==
    IF texts = <<>> THEN <<>>
    ELSE IF Len(texts) = 1 THEN texts[1]
    ELSE texts[1] \o <<",">> \o Joined(Tail(texts))

\* one entry per (hardware, sensor) pair, in insertion order
Entries(hw) ==
    LET p == Pairs(hw, 1)
    IN  [n \in 1..Len(p) |-> EntryText(hw[p[n][1]], hw[p[n][1]].sensors[p[n][2]])]

ExpectedStatus(hw) == <<"{">> \o Joined(Entries(hw)) \o <<"}">>

\* the last build_status call had room for the whole encoding
StatusFits == statusOut.called /\ Len(ExpectedStatus(hardware)) < statusOut.bufferSize

\* C14: the output of build_status is "{", one entry per (hardware, sensor)
\* pair in insertion order, comma separated, "}"; the n-th entry is keyed by
\* the hardware key, a colon and the sensor type of the n-th pair; without any
\* sensor the output is "{}".
C14_StatusEncoding ==
    StatusFits =>
        /\ statusOut.text = ExpectedStatus(hardware)
        /\ statusOut.written = Len(statusOut.text)
        /\ LET p == Pairs(hardware, 1)
           IN  \A n \in 1..Len(p) :
                    LET h == hardware[p[n][1]]
                    IN  IsPrefix(<<Q>> \o h.key \o <<":">> \o h.sensors[p[n][2]].type
                                    \o <<Q, ":", "{">>,
                                 Entries(hardware)[n])
        /\ Pairs(hardware, 1) = <<>> => statusOut.text = <<"{", "}">>

\* build_status ran on two hardware with one sensor each
C14_Witness ==
    /\ StatusFits
    /\ Len(hardware) = 2
    /\ Len(hardware[1].sensors) = 1 /\ Len(hardware[2].sensors) = 1
    /\ hardware[2].sensors[1].hasValue

NullToken == <<"n", "u", "l", "l">>

\* a decimal number with two fractional digits
IsNumber(text) ==
    LET digits == IF text # <<>> /\ text[1] = "-" THEN Tail(text) ELSE text
        n == Len(digits)
        IsDigit(c) == \E k \in 1..10 : DigitChars[k] = c
    IN  /\ n >= 4
        /\ digits[n - 2] = "."
        /\ \A k \in 1..n : k # n - 2 => IsDigit(digits[k])

-----------------------------------------------------------------------------
(* Claims about composite keys *)

HasColon(text) == \E i \in 1..Len(text) : text[i] = ":"

\* C17: for non-empty hw and sensor without a colon that fit the buffers,
\* parsing the composite key built from them succeeds and gives back hw and sensor.
C17_CompositeKeyRoundTrip ==
    /\ keyOut.op = "roundtrip"
    /\ keyOut.hardwareKey # <<>> /\ ~HasColon(keyOut.hardwareKey)
    /\ keyOut.sensorType # <<>> /\ ~HasColon(keyOut.sensorType)
    /\ Len(keyOut.hardwareKey) + 1 + Len(keyOut.sensorType) < keyOut.bufferSize
    /\ Len(keyOut.hardwareKey) < keyOut.parseSize
    /\ Len(keyOut.sensorType) < keyOut.parseSize
    => /\ keyOut.ret
       /\ keyOut.outHardware = keyOut.hardwareKey
       /\ keyOut.outSensor = keyOut.sensorType

\* a round trip through buffers that the key and its parts fill to the last byte
C17_Witness ==
    /\ keyOut.op = "roundtrip" /\ keyOut.ret
    /\ ~HasColon(keyOut.hardwareKey) /\ ~HasColon(keyOut.sensorType)
    /\ Len(keyOut.text) = keyOut.bufferSize - 1
    /\ Len(keyOut.hardwareKey) = keyOut.parseSize - 1
    /\ keyOut.outHardware = keyOut.hardwareKey /\ keyOut.outSensor = keyOut.sensorType
    /\ keyOut.hardwareKey # keyOut.sensorType

\* a colon with something before the first one and something after it
WellFormedKey(text) ==
    /\ text # Null
    /\ \E i \in 1..Len(text) :
            /\ text[i] = ":"
            /\ \A j \in 1..(i - 1) : text[j] # ":"
            /\ i > 1 /\ i < Len(text)

\* C18: parse_composite_key fails on an input without a colon, with nothing
\* before the first colon or with nothing after it, and succeeds on every other.
C18_ParseRejectsMalformed ==
    keyOut.op = "parse" => (keyOut.ret <=> WellFormedKey(keyOut.text))

\* "x:" was refused
C18_Witness ==
    /\ keyOut.op = "parse" /\ ~keyOut.ret
    /\ keyOut.text # Null /\ Len(keyOut.text) = 2 /\ keyOut.text[2] = ":"
    /\ keyOut.text[1] # ":"

-----------------------------------------------------------------------------
(* Claims about the order of publications and the unconfigured client *)

\* C19: the publications of one loop() call leave in the order status, then
\* config, then extended info: no sensors/config follows a system/config or a
\* hardware/config, and sensors/status comes first.
C19_StatusConfigExtendedOrder ==
    \A i, j \in 1..Len(sent) :
        i < j => /\ sent[j] # "sensors/status"
                 /\ sent[i] \in {"system/config", "hardware/config"}
                        => sent[j] # "sensors/config"

\* C20: while no broker is set, neither connect() nor the client's loop()
\* changes the client: no connection is requested and the time of the last
\* attempt stays as it was.
C20_NoBrokerConnectIsNoOp ==
    [][~mqtt.host /\ (Connect \/ MqttLoop) => mqtt' = mqtt /\ attempts' = attempts]_vars

-----------------------------------------------------------------------------
(* Claims about the connection listener *)

\* what the listener registered in m is expected to receive for one event
OneCall(m, connected) == <<[listener |-> m.onConnect, connected |-> connected]>>

\* C21: the client is disconnected until an attempt was made; a connected
\* event makes isConnected true and calls the registered listener once with
\* true, a disconnected event makes it false and calls the listener once with
\* false; no other step calls a listener, and the listener called is the one
\* the last onConnect call registered.
C21_ListenerFollowsTransportEvents ==
    [][/\ attempts.by = "none" => ~isConnected(mqtt)
       /\ TransportConnected =>
            /\ isConnected(mqtt')
            /\ mqtt.onConnect # NoListener => notified' = OneCall(mqtt, TRUE)
       /\ TransportDisconnected =>
            /\ ~isConnected(mqtt')
            /\ mqtt.onConnect # NoListener => notified' = OneCall(mqtt, FALSE)
       /\ notified' # notified => lastOp'.op = "onConnect" /\ lastOp' # lastOp
       /\ IF lastOp'.op = "MqttClient::onConnect" /\ lastOp' # lastOp
          THEN mqtt'.onConnect = lastOp'.key[1]
          ELSE mqtt'.onConnect = mqtt.onConnect]_vars

\* a listener registered in place of another one was told of a lost connection
C21_Witness ==
    /\ lastOp.op = "onConnect" /\ ~lastOp.ret
    /\ ~isConnected(mqtt)
    /\ mqtt.onConnect = "second"
    /\ notified = <<[listener |-> "second", connected |-> FALSE]>>
    /\ attempts.prevBy # "none"

-----------------------------------------------------------------------------
(* Claims about publishing *)

\* the topics of the value messages the inputs can give
ValueTopics == {ValueTopic(key, type) : key \in StatusKeys, type \in StatusTypes}

\* C22: a call made while the transport is not connected hands nothing to the
\* transport, and whatever is handed over comes from the call just made: a
\* value message only from a publish of that hardware and sensor made while
\* connected, the others only from a loop() made while connected.
C22_NothingHandedWhileDisconnected ==
    [][(lastOp'.op \in {"publish", "loop"} /\ now' = now) \/ sent' # sent =>
        /\ ~isConnected(mqtt) => sent' = <<>>
        /\ \A i \in 1..Len(sent') :
                /\ isConnected(mqtt)
                /\ IF sent'[i] \in ValueTopics
                   THEN /\ lastOp'.op = "publish"
                        /\ \E type \in StatusTypes : sent' = <<ValueTopic(lastOp'.key, type)>>
                   ELSE lastOp'.op = "loop"]_vars

\* a publish made while disconnected, after one that went out, and with the
\* link lost in between: nothing was handed over
C22_Witness ==
    /\ lastOp.op = "publish" /\ sent = <<>>
    /\ ~isConnected(mqtt) /\ attempts.prevBy # "none"
    /\ isHardwareEnabled(hardware, lastOp.key)
    /\ \E i \in 1..Len(hardware) : \E j \in 1..Len(hardware[i].sensors) :
            hardware[i].sensors[j].lastUpdate = now /\ now > STATUS_INTERVAL

\* C23: a publish for a hardware that is disabled or not in the registry
\* leaves the registry as it was and hands nothing to the transport, and
\* isHardwareEnabled is false for every key the registry does not hold.
C23_PublishGatedByEnabled ==
    [][/\ \A key \in KeyInputs \cup StatusKeys :
                ~hasHardware(hardware, key) => ~isHardwareEnabled(hardware, key)
       /\ lastOp'.op = "publish" =>
            \A key \in {lastOp'.key}, type \in StatusTypes, value \in ValueInputs :
                /\ ~hasHardware(hardware, key) \/ ~isHardwareEnabled(hardware, key)
                /\ Publish({key}, {type}, {value})
                => hardware' = hardware /\ sent' = <<>>]_vars

\* a publish while connected, for a disabled hardware whose sensor holds an
\* earlier value: the value and its time are the earlier ones
C23_Witness ==
    /\ lastOp.op = "publish" /\ isConnected(mqtt) /\ sent = <<>>
    /\ hasHardware(hardware, lastOp.key) /\ ~isHardwareEnabled(hardware, lastOp.key)
    /\ \E i \in 1..Len(hardware) : \E j \in 1..Len(hardware[i].sensors) :
            LET sn == hardware[i].sensors[j]
            IN  sn.hasValue /\ sn.lastUpdate < now /\ sn.status = "disabled"

-----------------------------------------------------------------------------
(* Claims about inbound messages *)

\* ms is s seconds in milliseconds
IsSeconds(ms, s) == ms % 1000 = 0 /\ ms \div 1000 = s

\* the entries of a config payload that carry an interval for key
Named(payload, key) == {e \in payload.sensors : e.key = key /\ e.hasInterval}

\* C24: on a well-formed config message every hardware of the registry named
\* with an interval of s seconds has interval s * 1000 afterwards, that value is
\* in the preferences, and the config callback, if set, is called with the key
\* and s * 1000; hardware not named is unchanged, and nothing is written or
\* called for it or for a key the registry does not hold.
C24_ConfigMessageApplied ==
    [][lastOp'.op = "message" =>
        \A payload \in ConfigPayloads :
            Message({ConfigTopic}, {payload}) =>
                /\ Len(hardware') = Len(hardware)
                /\ \A i \in 1..Len(hardware) :
                        LET key == hardware[i].key
                        IN  IF Named(payload, key) # {}
                            THEN \E e \in Named(payload, key) :
                                    /\ IsSeconds(hardware'[i].intervalMs, e.interval)
                                    /\ hardware'[i] =
                                            [hardware[i] EXCEPT !.intervalMs = hardware'[i].intervalMs]
                                    /\ loadInterval(prefs', key, 0) = hardware'[i].intervalMs
                                    /\ callbacks.config =>
                                            \E j \in 1..Len(fired') :
                                                fired'[j] = [cb |-> "onConfigChange", key |-> key,
                                                             value |-> hardware'[i].intervalMs]
                            ELSE /\ hardware'[i] = hardware[i]
                                 /\ \A j \in 1..Len(fired') : fired'[j].key # key
                /\ \A e \in payload.sensors :
                        Named(payload, e.key) = {} \/ ~hasHardware(hardware, e.key) =>
                            /\ \A j \in 1..Len(fired') : fired'[j].key # e.key
                            /\ \A w \in prefs' \ prefs : w[1] # prefKey(IvPrefix, e.key)
                /\ ~callbacks.config => fired' = <<>>
                /\ Len(fired') <= Len(hardware)]_vars

\* the status a sensor is to have once its hardware's enabled flag is e
Recomputed(e, sn) ==
    IF ~e THEN "disabled"
    ELSE IF sn.hasValue /\ ~isnan(sn.lastValue) THEN "ok"
    ELSE "missing"

\* C25: an enable message naming a hardware of the registry sets its enabled
\* flag to the value carried, gives each of its sensors the status recomputed
\* for that flag, persists the flag, and calls the enable callback, if set,
\* once with the key and the flag, at a time isHardwareEnabled already
\* answers the new flag.
C25_EnableMessageApplied ==
    [][lastOp'.op = "message" =>
        \A payload \in EnableMessages :
            Message({EnableTopic}, {payload}) /\ hasHardware(hardware, payload.hardware) =>
                LET k == payload.hardware
                    e == payload.enabled = "true"
                    i == findHardwareIndex(hardware, k)
                IN  /\ hardware'[i].enabled = e
                    /\ isHardwareEnabled(hardware', k) = e
                    /\ Len(hardware'[i].sensors) = Len(hardware[i].sensors)
                    /\ \A j \in 1..Len(hardware[i].sensors) :
                            hardware'[i].sensors[j].status
                                = Recomputed(e, hardware[i].sensors[j])
                    /\ loadHardwareEnabled(prefs', k, ~e) = e
                    /\ fired' = IF callbacks.enable
                                THEN <<[cb |-> "onEnableChange", key |-> k, value |-> e,
                                        seen |-> e]>>
                                ELSE <<>>]_vars

\* what the messages have carried of one kind for key
CarriedFor(kind, key) == {o \in applied.log : o[1] = kind /\ o[2] = key}

\* C26: after a restart, and before any new message, a hardware registered
\* through the facade has the enabled flag of the last enable message applied
\* to it and the interval of the last config message applied to it; with
\* nothing in the preferences for its key it is enabled with 60000 ms.
C26_SettingsSurviveRestart ==
    applied.restarted /\ applied.quiet =>
        \A i \in 1..Len(hardware) :
            LET key == hardware[i].key
            IN  /\ \A o \in CarriedFor("enable", key) : hardware[i].enabled = o[3]
                /\ \A o \in CarriedFor("config", key) : IsSeconds(hardware[i].intervalMs, o[3])
                /\ (\A w \in prefs : w[1] # prefKey(EnPrefix, key)) => hardware[i].enabled
                /\ (\A w \in prefs : w[1] # prefKey(IvPrefix, key))
                        => hardware[i].intervalMs = DefaultIntervalMs

-----------------------------------------------------------------------------
(* Claims about the registry's frame *)

\* C27: updateSensorValue for a hardware or sensor the registry does not
\* hold, and setHardwareEnabled / setHardwareInterval for a hardware it does
\* not hold, leave the registry exactly as it was.
C27_UnknownTargetsAreNoOps ==
    [][lastOp'.op \in {"updateSensorValue", "setHardwareEnabled", "setHardwareInterval"} =>
        \A key \in {lastOp'.key} :
            /\ \A type \in StatusTypes, value \in ValueInputs :
                    ~hasSensor(hardware, key, type) /\ UpdateSensorValue({key}, {type}, {value})
                        => hardware' = hardware
            /\ ~hasHardware(hardware, key)
                    /\ (SetHardwareEnabled({key}) \/ SetHardwareInterval({key}, IntervalInputs))
                    => hardware' = hardware]_vars

\* setHardwareEnabled(false) on a key the registry does not hold, next to an
\* enabled hardware whose sensor has a value
C27_Witness ==
    /\ lastOp.op = "setHardwareEnabled" /\ ~lastOp.ret
    /\ ~hasHardware(hardware, lastOp.key)
    /\ \E i \in 1..Len(hardware) :
            /\ hardware[i].enabled
            /\ \E j \in 1..Len(hardware[i].sensors) : hardware[i].sensors[j].status = "ok"

\* C28: a registerHardware that succeeds appends one entry behind the others,
\* enabled, with 60000 ms, no sensor and the name given, or the key when no
\* name is given, and isHardwareEnabled(key) is true afterwards; with an empty
\* or absent key it fails and the registry is unchanged.
C28_RegisterAppendsDefaultEntry ==
    [][lastOp'.op = "registerHardware" =>
        \A key \in {lastOp'.key}, name \in NameInputs :
            RegisterHardware({key}, {name}) =>
                /\ key = Null \/ key = <<>> => ~lastOp'.ret
                /\ IF lastOp'.ret
                   THEN /\ Len(hardware') = Len(hardware) + 1
                        /\ SubSeq(hardware', 1, Len(hardware)) = hardware
                        /\ LET e == hardware'[Len(hardware')]
                           IN  /\ e.enabled
                               /\ e.intervalMs = 60000
                               /\ e.sensors = <<>>
                               /\ e.name = IF name # Null THEN name ELSE key
                        /\ isHardwareEnabled(hardware', key)
                   ELSE hardware' = hardware]_vars

\* C29: an addSensor that succeeds appends one sensor behind the others of
\* that hardware, with status "missing", no value and lastUpdate 0, and leaves
\* everything else in the registry as it was.
C29_AddSensorAppendsMissing ==
    [][lastOp'.op = "addSensor" /\ lastOp'.ret =>
        \A key \in {lastOp'.key}, type \in TypeInputs \cup LongTypeInputs :
            AddSensor({key}, {type}) =>
                LET i == findHardwareIndex(hardware, key)
                IN  /\ i > 0
                    /\ Len(hardware') = Len(hardware)
                    /\ \A k \in 1..Len(hardware) : k # i => hardware'[k] = hardware[k]
                    /\ hardware'[i] = [hardware[i] EXCEPT !.sensors = hardware'[i].sensors]
                    /\ Len(hardware'[i].sensors) = Len(hardware[i].sensors) + 1
                    /\ SubSeq(hardware'[i].sensors, 1, Len(hardware[i].sensors))
                            = hardware[i].sensors
                    /\ LET sn == hardware'[i].sensors[Len(hardware'[i].sensors)]
                       IN  /\ sn.status = "missing"
                           /\ ~sn.hasValue
                           /\ sn.lastUpdate = 0]_vars

\* a second sensor added to a hardware whose first sensor holds a value,
\* next to another hardware
C29_Witness ==
    /\ lastOp.op = "addSensor" /\ lastOp.ret
    /\ Len(hardware) = 2
    /\ LET i == findHardwareIndex(hardware, lastOp.key)
       IN  /\ i > 0
           /\ Len(hardware[i].sensors) = 2
           /\ hardware[i].sensors[1].status = "ok"
           /\ hardware[i].sensors[2].status = "missing"

-----------------------------------------------------------------------------
(* Claims about the reconnection *)

\* C30: with a broker set, the client's loop() starts a connection attempt
\* exactly when the client is not connected and RECONNECT_INTERVAL or more has
\* passed since the last attempt, the interval itself included; it starts
\* none while connected.
C30_TickAttemptsAtInterval ==
    [][mqtt.host /\ MqttLoop =>
        (lastOp'.ret <=> /\ ~isConnected(mqtt)
                         /\ Elapsed(millis, mqtt.lastReconnectAttempt) >= RECONNECT_INTERVAL)
      ]_vars

\* the clock values from which two full intervals can still pass
LiveHorizon == MaxUptime - 2 * RECONNECT_INTERVAL - 1

\* C31: with a broker set and the client not connected, a host that keeps
\* calling loop() while time passes sees an attempt started, at the latest by
\* the first loop() that comes RECONNECT_INTERVAL or more after the attempt
\* before; this goes on while the client stays disconnected, and a connected
\* event of the transport makes the client connected.
C31_DisconnectedClientRetries ==
    /\ (mqtt.host /\ ~isConnected(mqtt) /\ now <= LiveHorizon)
            ~> (isConnected(mqtt) \/ (attempts.by = "tick" /\ attempts.at = now))
    /\ [][/\ mqtt.host /\ ~isConnected(mqtt)
          /\ Elapsed(millis, mqtt.lastReconnectAttempt) >= RECONNECT_INTERVAL
          /\ MqttLoop
          => attempts'.by = "tick" /\ attempts'.at = now]_vars
    /\ [][TransportConnected => isConnected(mqtt')]_vars

ScheduledInterval(t) ==
    CASE t = "sensors/status" -> STATUS_INTERVAL
      [] t = "system/config"  -> SYSTEM_INTERVAL
      [] t = "sensors/config" -> CONFIG_INTERVAL

LastFired(sc, t) ==
    CASE t = "sensors/status" -> sc.lastStatusPublish
      [] t = "system/config"  -> sc.lastSystemPublish
      [] t = "sensors/config" -> sc.lastConfigPublish

\* C32: two consecutive publications of one scheduled action are at least its
\* interval apart, a scheduled publication leaves only while the client is
\* connected, and the last-fired timestamp of an action after a tick depends
\* on that action's own timer alone: it becomes the tick's time when its own
\* interval has elapsed and stays as it was otherwise, whatever the other two
\* actions do.
C32_ScheduledPublishesSpaced ==
    /\ [](\A t \in DOMAIN emitted :
            emitted[t].prevAt >= 0 => emitted[t].at - emitted[t].prevAt >= ScheduledInterval(t))
    /\ [][lastOp'.op = "loop" /\ Loop =>
            \A t \in DOMAIN emitted :
                /\ (\E i \in 1..Len(sent') : sent'[i] = t) => isConnected(mqtt')
                /\ LastFired(sched', t) =
                        IF Elapsed(millis, LastFired(sched, t)) >= ScheduledInterval(t)
                        THEN millis ELSE LastFired(sched, t)]_vars

\* every action has published twice, and the last tick fired the extended
\* information alone
C32_Witness ==
    /\ \A t \in DOMAIN emitted : emitted[t].prevAt >= 0
    /\ lastOp.op = "loop"
    /\ sent = <<"system/config", "hardware/config">>
    /\ sched.lastSystemPublish = now
    /\ sched.lastStatusPublish < now
    /\ sched.lastConfigPublish < now

\* what the facade is to do on a transport event: both subscriptions on a
\* connection, then the host's callback when there is one
Expected(f, connected) ==
    (IF connected
     THEN <<[call |-> "subscribe", arg |-> ConfigTopic, connected |-> TRUE],
            [call |-> "subscribe", arg |-> EnableTopic, connected |-> TRUE]>>
     ELSE <<>>)
    \o (IF f.onConnect # NoListener
        THEN <<[call |-> "onConnect", arg |-> f.onConnect, connected |-> connected]>>
        ELSE <<>>)

\* C33: on every transport "connected" event the facade subscribes to
\* m/sensors/config and to m/sensors/enable and then calls the host's
\* connection callback with true; on every "disconnected" event it subscribes
\* to nothing and calls the host's callback with false; the callback called is
\* the one registered last, whenever it was registered.
C33_SubscribesThenNotifies ==
    [][/\ (lastOp'.op = "onConnect" /\ TransportConnected)
            => facade'.trace = Expected(facade, TRUE)
       /\ (lastOp'.op = "onConnect" /\ TransportDisconnected)
            => facade'.trace = Expected(facade, FALSE)]_vars

\* C34: an enable message naming a key the registry does not hold changes
\* nothing: the registry stays as it is, no enabled value is written to the
\* preferences and the enable callback is not called; the first registration
\* of that key, later, starts enabled.
C34_UnregisteredEnableIgnored ==
    [][/\ lastOp'.op = "message" =>
            \A payload \in EnableMessages :
                Message({EnableTopic}, {payload}) /\ ~hasHardware(hardware, payload.hardware) =>
                    /\ hardware' = hardware
                    /\ prefs' = prefs
                    /\ fired' = <<>>
       /\ lastOp'.op = "IotMesurable::registerHardware" =>
            \A key \in {lastOp'.key} :
                IotRegisterHardware({key}, NameInputs) /\ ~hasHardware(hardware, key) =>
                    isHardwareEnabled(hardware', key)]_vars

\* C35: every (hardware, sensor) pair of the registry has a well-formed
\* composite key: the key built from the hardware key and the sensor type
\* parses, and parses back into these two.
C35_PairsHaveWellFormedKeys ==
    \A i \in HwIdx : \A j \in 1..Len(Sensors(i)) :
        LET r == parseCompositeKey(
                    buildCompositeKey(hardware[i].key, Sensors(i)[j].type, CompositeKeySize),
                    KeySize)
        IN  /\ r.ret
            /\ r.hardwareKey = hardware[i].key
            /\ r.sensorType = Sensors(i)[j].type

\* C36: the interval of every registered hardware is strictly positive in
\* every reachable state, whatever 32-bit interval the config messages carry.
C36_IntervalsPositive ==
    \A i \in HwIdx : hardware[i].intervalMs > 0

\* C37: a publish for an enabled hardware of the registry and a sensor type
\* that was never added to it hands no message to the transport and leaves
\* the registry as it was.
C37_PublishNeedsSensor ==
    [][lastOp'.op = "publish" =>
        \A key \in {lastOp'.key}, type \in StatusTypes, value \in ValueInputs :
            /\ isHardwareEnabled(hardware, key) /\ ~hasSensor(hardware, key, type)
            /\ Publish({key}, {type}, {value})
            => hardware' = hardware /\ sent' = <<>>]_vars

\* the time that has passed since last, on a clock that does not wrap
Since(last) == now - last

\* C38: when the counter wraps from 2^32 - 1 to 0 the tests on now - last
\* decide as they do elsewhere.  Nothing is early: two publications of one
\* scheduled action are at least its interval apart, and an attempt started by
\* loop() comes RECONNECT_INTERVAL or more after the attempt or connect() call
\* before it.  Nothing is missed: a loop() of a connected client publishes
\* every action whose interval has passed, and a loop() of a disconnected
\* client starts an attempt once more than RECONNECT_INTERVAL has passed.
C38_WrapKeepsElapsedTests ==
    /\ [](\A t \in DOMAIN emitted :
            emitted[t].at # -1 /\ emitted[t].prevAt # -1
                => emitted[t].at - emitted[t].prevAt >= ScheduledInterval(t))
    /\ [](attempts.by = "tick" /\ attempts.prevBy # "none"
                => attempts.at - attempts.prevAt >= RECONNECT_INTERVAL)
    /\ [][lastOp'.op = "loop" /\ Loop =>
            /\ \A t \in DOMAIN emitted :
                    isConnected(mqtt) /\ Since(LastFired(sched, t)) >= ScheduledInterval(t)
                        => \E i \in 1..Len(sent') : sent'[i] = t
            /\ mqtt.host /\ ~isConnected(mqtt)
                    /\ Since(mqtt.lastReconnectAttempt) > RECONNECT_INTERVAL
                        => attempts'.by = "tick" /\ attempts'.at = now]_vars

\* after the wrap: the status publication has just left one interval after
\* the one before, which left before the wrap, and the last attempt that
\* loop() started came after the wrap, the one before it before the wrap
C38_Witness ==
    /\ lastOp.op = "loop" /\ now >= 0
    /\ emitted["sensors/status"].at = now
    /\ emitted["sensors/status"].prevAt = now - STATUS_INTERVAL
    /\ emitted["sensors/status"].prevAt < 0
    /\ attempts.by = "tick" /\ attempts.prevBy # "none"
    /\ attempts.prevAt < 0 /\ attempts.at >= 0

\* C39: a registration through the facade of a key the registry already
\* holds leaves the registry as it was: the enabled flag, the interval, and
\* the value and the status of every sensor.
C39_SecondRegistrationChangesNothing ==
    [][lastOp'.op = "IotMesurable::registerHardware" =>
        \A key \in {lastOp'.key} :
            IotRegisterHardware({key}, NameInputs) /\ hasHardware(hardware, key)
                => hardware' = hardware]_vars

====
